---- MODULE Spec2Model ----
(***************************************************************************)
(* A model of the uqoin-core ledger pipeline: transactions, groups,        *)
(* extensions, block validation and the state's roll-up / roll-down.       *)
(*                                                                         *)
(* 256-bit words are abstracted to small naturals.  A signature            *)
(* (sign_r, sign_s) is abstracted to the pair <<key, msg>> of the public   *)
(* key that produced it and the message it signed: recovering the public   *)
(* key under that message gives the key, under any other message it gives  *)
(* a key that belongs to nobody (Schema::extract_public).                  *)
(***************************************************************************)
EXTENDS Integers, Sequences, FiniteSets, TLC

(***************************************************************************)
(* Bounds of the model.                                                    *)
(***************************************************************************)
NCoins == 4
NKeys == 2
MaxBlocks == 2
MaxRolls == 3

(***************************************************************************)
(* Program constants.                                                      *)
(***************************************************************************)
FeeAddr == 0
SplitAddr == 1
MergeAddr == 2
\* The number of transactions of a merge group without its fee.
MergeSize == 3

Coins == 1..NCoins
Keys == (MergeAddr + 1)..(MergeAddr + NKeys)
\* The key of the validator whose blocks the node sees; the other keys are
\* users.
Validator == MergeAddr + 1
TypeAddrs == {FeeAddr, SplitAddr, MergeAddr}
MaxCounter == MaxBlocks + 1

EmptyMap == [x \in {} |-> 0]

MapPut(f, k, v) == [x \in (DOMAIN f) \cup {k} |-> IF x = k THEN v ELSE f[x]]

MapDel(f, k) == [x \in (DOMAIN f) \ {k} |-> f[x]]

SeqRange(s) == {s[i] : i \in DOMAIN s}

(***************************************************************************)
(* utils.rs                                                                *)
(***************************************************************************)
\* check_unique: the first repeated element makes it false.
check_unique(s) == \A i, j \in DOMAIN s : i < j => s[i] # s[j]

\* check_same: every element equals the first one.
check_same(s) == \A i \in DOMAIN s : s[i] = s[1]

\* hash_of_u256: SHA3-256 of a sequence of words, taken as injective.
hash_of_u256(elems) == elems

(***************************************************************************)
(* schema.rs, abstracted.                                                  *)
(***************************************************************************)
AddrSpan == MergeAddr + NKeys + 1
CntSpan == MaxCounter + 2
MsgSpan == (NCoins + 1) * AddrSpan * CntSpan
MsgCode(msg) == (msg[1] * AddrSpan + msg[2]) * CntSpan + msg[3]

\* A key nobody holds, different for every (signature, message) pair and
\* different from every key of Keys and every type address.
UnrelatedKey(msg, signature) ==
    AddrSpan + (signature[1] * MsgSpan + MsgCode(signature[2])) * MsgSpan
             + MsgCode(msg)

build_signature(msg, key) == <<key, msg>>

extract_public(msg, signature) ==
    IF signature[2] = msg THEN signature[1] ELSE UnrelatedKey(msg, signature)

(***************************************************************************)
(* coin.rs                                                                 *)
(***************************************************************************)
\* The high 128 bits of a word.  A coin carries the tail of one key; a key
\* carries its own.
HighHalf(w) == IF w \in Keys THEN w ELSE 0
CoinTail(coin) == MergeAddr + 1 + (coin \div NCoins)

coin_validate(coin, miner) ==
    IF CoinTail(coin) = HighHalf(miner) THEN "Ok" ELSE "CoinInvalid"

\* 256 - bitlen(SHA3(coin || miner)): a fixed table standing for the hash.
\* Mined by the validator, coin 1 is one order above the other coins; mined
\* by anyone else, it is two orders below them.
coin_order(coin, miner) ==
    IF miner = Validator THEN (IF coin = 1 THEN 1 ELSE 0)
    ELSE (IF coin = 1 THEN 0 ELSE 2)

(***************************************************************************)
(* state.rs: the State value and its accessors.                            *)
(***************************************************************************)
GENESIS_HASH == <<"genesis">>

BlockInfo_genesis == [bix |-> 0, offset |-> 0, hash |-> GENESIS_HASH]

State_new == [coin_info_map |-> EmptyMap,
              owner_coins_map |-> EmptyMap,
              last_block_info |-> BlockInfo_genesis,
              panic |-> FALSE]

HasCoin(st, coin) == coin \in DOMAIN st.coin_info_map

get_owner(st, coin) ==
    IF HasCoin(st, coin) THEN st.coin_info_map[coin].owner ELSE -1

get_coin_counter(st, coin) ==
    IF HasCoin(st, coin) THEN st.coin_info_map[coin].counter ELSE 0

Panicked(st) == [st EXCEPT !.panic = TRUE]

owner_coin_add(st, owner, coin) ==
    IF st.panic THEN st
    ELSE IF ~HasCoin(st, coin) THEN Panicked(st)
    ELSE LET order == st.coin_info_map[coin].order
             ocm == st.owner_coins_map
             m1 == IF owner \in DOMAIN ocm THEN ocm[owner] ELSE EmptyMap
             s1 == IF order \in DOMAIN m1 THEN m1[order] ELSE {}
         IN [st EXCEPT !.owner_coins_map =
                MapPut(ocm, owner, MapPut(m1, order, s1 \cup {coin}))]

\* owner_coin_remove that leaves the emptied set and map where they are.
owner_coin_remove_KeepEmpty(st, owner, coin) ==
    IF st.panic THEN st
    ELSE IF ~HasCoin(st, coin) THEN Panicked(st)
    ELSE LET order == st.coin_info_map[coin].order
             ocm == st.owner_coins_map
         IN IF owner \notin DOMAIN ocm THEN Panicked(st)
            ELSE IF order \notin DOMAIN ocm[owner] THEN Panicked(st)
            ELSE [st EXCEPT !.owner_coins_map =
                     MapPut(ocm, owner,
                            MapPut(ocm[owner], order,
                                   ocm[owner][order] \ {coin}))]

owner_coin_remove(st, owner, coin) ==
    IF st.panic THEN st
    ELSE IF ~HasCoin(st, coin) THEN Panicked(st)
    ELSE LET order == st.coin_info_map[coin].order
             ocm == st.owner_coins_map
         IN IF owner \notin DOMAIN ocm THEN Panicked(st)
            ELSE IF order \notin DOMAIN ocm[owner] THEN Panicked(st)
            ELSE LET s1 == ocm[owner][order] \ {coin}
                     m1 == IF s1 = {} THEN MapDel(ocm[owner], order)
                           ELSE MapPut(ocm[owner], order, s1)
                 IN [st EXCEPT !.owner_coins_map =
                        IF DOMAIN m1 = {} THEN MapDel(ocm, owner)
                        ELSE MapPut(ocm, owner, m1)]

(***************************************************************************)
(* transaction.rs: Transaction                                             *)
(***************************************************************************)
Transaction_new(coin, addr, sign_r, sign_s) ==
    [coin |-> coin, addr |-> addr, sign_r |-> sign_r, sign_s |-> sign_s]

calc_msg(coin, addr, counter) == hash_of_u256(<<coin, addr, counter>>)

Transaction_build(coin, addr, key, counter) ==
    LET sig == build_signature(calc_msg(coin, addr, counter), key)
    IN Transaction_new(coin, addr, sig[1], sig[2])

get_type(tr) ==
    IF tr.addr = FeeAddr THEN "Fee"
    ELSE IF tr.addr = SplitAddr THEN "Split"
    ELSE IF tr.addr = MergeAddr THEN "Merge"
    ELSE "Transfer"

get_hash(tr) == hash_of_u256(<<tr.coin, tr.addr, tr.sign_r, tr.sign_s>>)

Transaction_get_order(tr, st, sender) ==
    IF HasCoin(st, tr.coin) THEN st.coin_info_map[tr.coin].order
    ELSE coin_order(tr.coin, sender)

validate_coin(tr, st, sender) ==
    IF HasCoin(st, tr.coin)
    THEN IF get_owner(st, tr.coin) = sender THEN "Ok"
         ELSE "TransactionInvalidSender"
    ELSE coin_validate(tr.coin, sender)

calc_senders(transactions, st) ==
    [i \in DOMAIN transactions |->
        LET tr == transactions[i]
            counter == get_coin_counter(st, tr.coin)
        IN extract_public(calc_msg(tr.coin, tr.addr, counter),
                          <<tr.sign_r, tr.sign_s>>)]

CoinsOf(transactions) == [i \in DOMAIN transactions |-> transactions[i].coin]

(***************************************************************************)
(* transaction.rs: Group                                                   *)
(***************************************************************************)
SubSeqFrom(s, n) == SubSeq(s, n + 1, Len(s))

\* Size of the group without fee, by the type of the leading transaction.
LeadSize(tr) ==
    CASE get_type(tr) = "Split" -> 1
      [] get_type(tr) = "Merge" -> MergeSize
      [] get_type(tr) = "Transfer" -> 1
      [] OTHER -> 0

\* FeeTailCheck without the test of the second transaction's type.
FeeTailCheck_AnyTail(transactions) ==
    IF Len(transactions) > 1
    THEN IF Len(transactions) # 2 THEN "TransactionBrokenGroup" ELSE "Ok"
    ELSE "Ok"

FeeTailCheck(transactions) ==
    IF Len(transactions) > 1
    THEN IF Len(transactions) # 2 THEN "TransactionBrokenGroup"
         ELSE IF get_type(transactions[2]) # "Fee"
              THEN "TransactionBrokenGroup"
              ELSE "Ok"
    ELSE "Ok"

\* MergeCheck asking for three coins of one order.
MergeCheck_SameOrder(transactions, st, senders) ==
    LET fee_check == (Len(transactions) = 3) \/
                     ((Len(transactions) = 4) /\
                      (get_type(transactions[4]) = "Fee"))
    IN IF ~fee_check THEN "TransactionBrokenGroup"
       ELSE
       LET type_check == (get_type(transactions[2]) = "Merge") /\
                         (get_type(transactions[3]) = "Merge")
       IN IF ~type_check THEN "TransactionBrokenGroup"
          ELSE IF Len(senders) < 3 THEN "Panic"
          ELSE
          LET order0 == Transaction_get_order(transactions[1], st, senders[1])
              order1 == Transaction_get_order(transactions[2], st, senders[2])
              order2 == Transaction_get_order(transactions[3], st, senders[3])
              order_check == (order1 = order0) /\ (order2 = order0)
          IN IF ~order_check THEN "TransactionBrokenGroup" ELSE "Ok"

MergeCheck(transactions, st, senders) ==
    LET fee_check == (Len(transactions) = 3) \/
                     ((Len(transactions) = 4) /\
                      (get_type(transactions[4]) = "Fee"))
    IN IF ~fee_check THEN "TransactionBrokenGroup"
       ELSE
       LET type_check == (get_type(transactions[2]) = "Merge") /\
                         (get_type(transactions[3]) = "Merge")
       IN IF ~type_check THEN "TransactionBrokenGroup"
          ELSE IF Len(senders) < 3 THEN "Panic"
          ELSE
          LET order0 == Transaction_get_order(transactions[1], st, senders[1])
              order1 == Transaction_get_order(transactions[2], st, senders[2])
              order2 == Transaction_get_order(transactions[3], st, senders[3])
              order_check == (order1 + 1 = order0) /\ (order2 + 1 = order0)
          IN IF ~order_check THEN "TransactionBrokenGroup" ELSE "Ok"

\* Group::validate_transactions with the sender check ahead of the coin check.
Group_validate_transactions_SenderFirst(transactions, st, senders) ==
    IF Len(transactions) = 0 THEN "TransactionEmpty"
    ELSE IF ~check_same(senders) THEN "TransactionInvalidSender"
    ELSE IF ~check_unique(CoinsOf(transactions)) THEN "CoinNotUnique"
    ELSE CASE get_type(transactions[1]) = "Fee" -> "TransactionBrokenGroup"
           [] get_type(transactions[1]) = "Split" -> FeeTailCheck(transactions)
           [] get_type(transactions[1]) = "Merge" ->
                  MergeCheck(transactions, st, senders)
           [] OTHER -> FeeTailCheck(transactions)

Group_validate_transactions(transactions, st, senders) ==
    IF Len(transactions) = 0 THEN "TransactionEmpty"
    ELSE IF ~check_unique(CoinsOf(transactions)) THEN "CoinNotUnique"
    ELSE IF ~check_same(senders) THEN "TransactionInvalidSender"
    ELSE CASE get_type(transactions[1]) = "Fee" -> "TransactionBrokenGroup"
           [] get_type(transactions[1]) = "Split" -> FeeTailCheck(transactions)
           [] get_type(transactions[1]) = "Merge" ->
                  MergeCheck(transactions, st, senders)
           [] OTHER -> FeeTailCheck(transactions)

Group_new(transactions, st, senders) ==
    Group_validate_transactions(transactions, st, senders)

Group_get_type(group) == get_type(group[1])

Group_get_order(group, st, senders) ==
    CASE Group_get_type(group) = "Split" ->
             Transaction_get_order(group[1], st, senders[1])
      [] Group_get_type(group) = "Merge" ->
             Transaction_get_order(group[1], st, senders[1]) + 1
      [] OTHER -> Transaction_get_order(group[1], st, senders[1])

Group_ext_size(group) ==
    CASE Group_get_type(group) = "Split" -> 3
      [] Group_get_type(group) = "Merge" -> 1
      [] OTHER -> 0

\* Group::from_vec: the result kind and the number of transactions taken
\* from the front of the vector.
Group_from_vec(transactions, st, senders) ==
    IF Len(transactions) = 0 THEN [res |-> "TransactionEmpty", size |-> 0]
    ELSE LET size0 == LeadSize(transactions[1])
         IN IF size0 = 0 THEN [res |-> "TransactionBrokenGroup", size |-> 0]
            ELSE
            LET size == IF (size0 < Len(transactions)) /\
                           (get_type(transactions[size0 + 1]) = "Fee")
                        THEN size0 + 1 ELSE size0
            IN IF (size > Len(transactions)) \/ (size > Len(senders))
               THEN [res |-> "Panic", size |-> 0]
               ELSE [res |-> Group_new(SubSeq(transactions, 1, size), st,
                                       SubSeq(senders, 1, size)),
                     size |-> size]

(***************************************************************************)
(* transaction.rs: Ext                                                     *)
(***************************************************************************)
\* SplitExtCheck asking for three coins of one order.
SplitExtCheck_SameOrder(transactions, st, senders) ==
    LET addr == transactions[1].addr
        type_check == \A i \in DOMAIN transactions :
                          get_type(transactions[i]) = "Transfer"
    IN IF ~type_check THEN "TransactionBrokenExt"
       ELSE
       LET addr_check == (transactions[2].addr = addr) /\
                         (transactions[3].addr = addr)
       IN IF ~addr_check THEN "TransactionBrokenExt"
          ELSE IF Len(senders) < 3 THEN "Panic"
          ELSE
          LET order0 == Transaction_get_order(transactions[1], st, senders[1])
              order1 == Transaction_get_order(transactions[2], st, senders[2])
              order2 == Transaction_get_order(transactions[3], st, senders[3])
              order_check == (order1 = order0) /\ (order2 = order0)
          IN IF ~order_check THEN "TransactionBrokenExt" ELSE "Ok"

SplitExtCheck(transactions, st, senders) ==
    LET addr == transactions[1].addr
        type_check == \A i \in DOMAIN transactions :
                          get_type(transactions[i]) = "Transfer"
    IN IF ~type_check THEN "TransactionBrokenExt"
       ELSE
       LET addr_check == (transactions[2].addr = addr) /\
                         (transactions[3].addr = addr)
       IN IF ~addr_check THEN "TransactionBrokenExt"
          ELSE IF Len(senders) < 3 THEN "Panic"
          ELSE
          LET order0 == Transaction_get_order(transactions[1], st, senders[1])
              order1 == Transaction_get_order(transactions[2], st, senders[2])
              order2 == Transaction_get_order(transactions[3], st, senders[3])
              order_check == (order1 + 1 = order0) /\ (order2 + 1 = order0)
          IN IF ~order_check THEN "TransactionBrokenExt" ELSE "Ok"

Ext_validate_transactions(transactions, st, senders) ==
    IF ~check_unique(CoinsOf(transactions)) THEN "CoinNotUnique"
    ELSE IF ~check_same(senders) THEN "TransactionInvalidSender"
    ELSE CASE Len(transactions) = 0 -> "Ok"
           [] Len(transactions) = 1 ->
                  IF get_type(transactions[1]) = "Transfer" THEN "Ok"
                  ELSE "TransactionBrokenExt"
           [] Len(transactions) = 3 -> SplitExtCheck(transactions, st, senders)
           [] OTHER -> "Panic"

Ext_new(transactions, st, senders) ==
    Ext_validate_transactions(transactions, st, senders)

Ext_get_type(ext) ==
    CASE Len(ext) = 0 -> "Transfer"
      [] Len(ext) = 1 -> "Merge"
      [] Len(ext) = 3 -> "Split"
      [] OTHER -> "Panic"

Ext_get_order(ext, st, senders) ==
    CASE Len(ext) = 0 -> 0
      [] Len(ext) = 1 -> Transaction_get_order(ext[1], st, senders[1])
      [] OTHER -> Transaction_get_order(ext[1], st, senders[1]) + 1

(***************************************************************************)
(* transaction.rs: group_transactions.  One call of the iterator's         *)
(* closure on the transactions that are left, at `offset` of the senders.  *)
(***************************************************************************)
NoItem(kind) == [kind |-> kind, group |-> <<>>, ext |-> <<>>]

\* The item made of the group and of Ext::new's answer `er` for `ext`.
ext_item(group, ext, er) ==
    IF er = "Panic" THEN NoItem("Panic")
    ELSE IF er # "Ok" THEN NoItem("None")
    ELSE [kind |-> "Some", group |-> group, ext |-> ext]

\* The extension is cut from the transactions left after the group.
take_ext(st, senders, offset, group, rest, ext_size) ==
    IF (ext_size > Len(rest)) \/
       (offset + Len(group) + ext_size > Len(senders))
    THEN NoItem("Panic")
    ELSE ext_item(group, SubSeq(rest, 1, ext_size),
                  Ext_new(SubSeq(rest, 1, ext_size), st,
                          SubSeq(senders, offset + Len(group) + 1,
                                 offset + Len(group) + ext_size)))

\* What follows Group::from_vec's answer `gr`.
group_item(transactions, st, senders, offset, gr) ==
    IF gr.res = "Panic" THEN NoItem("Panic")
    ELSE IF gr.res # "Ok" THEN NoItem("None")
    ELSE take_ext(st, senders, offset, SubSeq(transactions, 1, gr.size),
                  SubSeqFrom(transactions, gr.size),
                  Group_ext_size(SubSeq(transactions, 1, gr.size)))

group_transactions_next(transactions, st, senders, offset) ==
    group_item(transactions, st, senders, offset,
               Group_from_vec(transactions, st, SubSeqFrom(senders, offset)))

\* The groups and extensions the iterator yields before it stops.
RECURSIVE group_transactions(_, _, _, _)

\* The item `it` and the items after it.
items_from(transactions, st, senders, offset, it) ==
    IF it.kind # "Some" THEN <<>>
    ELSE <<[offset |-> offset, group |-> it.group, ext |-> it.ext]>> \o
         group_transactions(
             SubSeqFrom(transactions, Len(it.group) + Len(it.ext)), st,
             senders, offset + Len(it.group) + Len(it.ext))

group_transactions(transactions, st, senders, offset) ==
    items_from(transactions, st, senders, offset,
               group_transactions_next(transactions, st, senders, offset))

(***************************************************************************)
(* block.rs                                                                *)
(***************************************************************************)
\* A word is NBytes bytes of ByteBits bits each (32 bytes of 8 bits in the
\* program); the complexity of the network is scaled down with it.
NBytes == 3
ByteBits == 2
ModelComplexity == 2
WordBits == NBytes * ByteBits
Nonces == 0..3

RECURSIVE Pow2(_)
Pow2(n) == IF n = 0 THEN 1 ELSE 2 * Pow2(n - 1)

ByteSpan == Pow2(ByteBits)

\* The n low bytes of a word, the least significant first.
RECURSIVE low_bytes(_, _)
low_bytes(w, n) ==
    IF n = 0 THEN <<>>
    ELSE <<w % ByteSpan>> \o low_bytes(w \div ByteSpan, n - 1)

\* U256::to_bytes: the bytes of a word, the least significant first.
to_bytes(w) == low_bytes(w, NBytes)

\* U256::from_bytes: the word of bytes given the least significant first.
RECURSIVE from_bytes(_)
from_bytes(bytes) ==
    IF Len(bytes) = 0 THEN 0
    ELSE Head(bytes) + ByteSpan * from_bytes(Tail(bytes))

\* Iterator::rev over the bytes.
RECURSIVE Reverse(_)
Reverse(bytes) ==
    IF Len(bytes) = 0 THEN <<>>
    ELSE Append(Reverse(Tail(bytes)), Head(bytes))

\* The order of byte slices (Ord for [u8]): the first byte that differs
\* decides, then the length.
SliceLeq(a, b) ==
    LET n == IF Len(a) < Len(b) THEN Len(a) ELSE Len(b)
        diff == {i \in 1..n : a[i] # b[i]}
    IN IF diff = {} THEN Len(a) <= Len(b)
       ELSE LET i == CHOOSE i \in diff : \A j \in diff : i <= j
            IN a[i] < b[i]

Block_new(offset, size, hash_prev, validator, nonce, hash) ==
    [offset |-> offset, size |-> size, hash_prev |-> hash_prev,
     validator |-> validator, nonce |-> nonce, hash |-> hash]

Block_calc_msg(block_hash_prev, validator, transactions) ==
    hash_of_u256(<<block_hash_prev, validator>> \o
                 [i \in DOMAIN transactions |-> get_hash(transactions[i])])

Block_calc_hash(msg, nonce) == hash_of_u256(<<msg, nonce>>)

\* The digest bytes of a block hash read as a big-endian number.  The digest
\* of (msg, nonce) is arbitrary; here the nonce alone decides its magnitude.
HashBytesValue(hash) == hash[2] * Pow2(WordBits - ModelComplexity - 1)

\* The digest bytes of a block hash, and the word hash_of_u256 makes of them
\* with U256::from_bytes.
HashBytes(hash) == Reverse(to_bytes(HashBytesValue(hash)))

HashWord(hash) == from_bytes(HashBytes(hash))

\* calc_limit_hash with one bit less in the shift (the limit halved).
calc_limit_hash_HalfShift(size, complexity) ==
    IF complexity = 0 THEN <<>>
    ELSE LET num == Pow2(WordBits - complexity) \div 2
         IN Reverse(to_bytes(IF size > 1 THEN num \div size ELSE num))

\* calc_limit_hash with the bytes of the limit left in the order of to_bytes.
calc_limit_hash_NotReversed(size, complexity) ==
    IF complexity = 0 THEN <<>>
    ELSE LET num == Pow2(WordBits - complexity)
         IN to_bytes(IF size > 1 THEN num \div size ELSE num)

\* calc_limit_hash: the bytes of the limit, the most significant first, or no
\* bytes when the assertion complexity > 0 ends the call.
calc_limit_hash(size, complexity) ==
    IF complexity = 0 THEN <<>>
    ELSE LET num == Pow2(WordBits - complexity)
         IN Reverse(to_bytes(IF size > 1 THEN num \div size ELSE num))

is_hash_valid(hash_bytes, limit_hash_bytes) ==
    SliceLeq(hash_bytes, limit_hash_bytes)

\* The check of validate_hash_complexity against the limit `limit_hash`.
validate_limit(hash, limit_hash) ==
    IF Len(limit_hash) = 0 THEN "Panic"
    ELSE IF is_hash_valid(to_bytes(hash), limit_hash) THEN "Ok"
    ELSE "BlockInvalidHashComplexity"

\* validate_hash_complexity of the word `hash`.
validate_hash_complexity(hash, size, complexity) ==
    validate_limit(hash, calc_limit_hash(size, complexity))

\* The loop of Block::validate_transactions over the lazily produced groups
\* and extensions: `transactions` are those not yet grouped.
RECURSIVE validate_groups(_, _, _, _, _, _)

\* The body of the loop without the check of the extension's sender.
validate_item_AnySender(transactions, validator, st, senders, offset, countdown, it) ==
    IF it.kind = "Panic" THEN "Panic"
    ELSE IF it.kind = "None"
         THEN IF countdown = 0 THEN "Ok" ELSE "BlockBroken"
    ELSE
    LET glen == Len(it.group)
        elen == Len(it.ext)
        group_senders == SubSeq(senders, offset + 1, offset + glen)
        ext_senders == SubSeq(senders, offset + glen + 1,
                              offset + glen + elen)
    IN IF (Ext_get_type(it.ext) # "Transfer") /\
          (Group_get_order(it.group, st, group_senders) #
           Ext_get_order(it.ext, st, ext_senders))
       THEN "BlockOrderMismatch"
       ELSE validate_groups(SubSeqFrom(transactions, glen + elen),
                            validator, st, senders, offset + glen + elen,
                            countdown - (glen + elen))

\* The body of the loop for the item `it` of the iterator, or its end.
validate_item(transactions, validator, st, senders, offset, countdown, it) ==
    IF it.kind = "Panic" THEN "Panic"
    ELSE IF it.kind = "None"
         THEN IF countdown = 0 THEN "Ok" ELSE "BlockBroken"
    ELSE
    LET glen == Len(it.group)
        elen == Len(it.ext)
        group_senders == SubSeq(senders, offset + 1, offset + glen)
        ext_senders == SubSeq(senders, offset + glen + 1,
                              offset + glen + elen)
    IN IF (elen > 0) /\ (ext_senders[1] # validator)
       THEN "BlockValidatorMismatch"
       ELSE IF (Ext_get_type(it.ext) # "Transfer") /\
               (Group_get_order(it.group, st, group_senders) #
                Ext_get_order(it.ext, st, ext_senders))
       THEN "BlockOrderMismatch"
       ELSE validate_groups(SubSeqFrom(transactions, glen + elen),
                            validator, st, senders, offset + glen + elen,
                            countdown - (glen + elen))

validate_groups(transactions, validator, st, senders, offset, countdown) ==
    validate_item(transactions, validator, st, senders, offset, countdown,
                  group_transactions_next(transactions, st, senders, offset))

\* Block::validate_transactions with the coin check after the grouping loop.
Block_validate_transactions_LateUnique(transactions, validator, st, senders) ==
    LET res == validate_groups(transactions, validator, st, senders, 0,
                               Len(transactions))
    IN IF res # "Ok" THEN res
       ELSE IF ~check_unique(CoinsOf(transactions)) THEN "CoinNotUnique"
       ELSE "Ok"

Block_validate_transactions(transactions, validator, st, senders) ==
    IF ~check_unique(CoinsOf(transactions)) THEN "CoinNotUnique"
    ELSE validate_groups(transactions, validator, st, senders, 0,
                         Len(transactions))

\* The hash checks of Block::validate, after validate_transactions gave `vt`.
validate_hash(block, transactions, complexity, vt) ==
    IF vt # "Ok" THEN vt
    ELSE IF Block_calc_hash(Block_calc_msg(block.hash_prev, block.validator,
                                           transactions),
                            block.nonce) # block.hash
    THEN "BlockInvalidHash"
    ELSE validate_hash_complexity(HashWord(block.hash), Len(transactions),
                                  complexity)

\* Block::validate with the offset checked ahead of the previous hash.
Block_validate_OffsetFirst(block, transactions, block_info_prev, complexity, st, senders) ==
    IF block_info_prev.offset # block.offset THEN "BlockOffsetMismatch"
    ELSE IF block_info_prev.hash # block.hash_prev
    THEN "BlockPreviousHashMismatch"
    ELSE validate_hash(block, transactions, complexity,
                       Block_validate_transactions(transactions,
                                                   block.validator, st,
                                                   senders))

Block_validate(block, transactions, block_info_prev, complexity, st, senders) ==
    IF block_info_prev.hash # block.hash_prev
    THEN "BlockPreviousHashMismatch"
    ELSE IF block_info_prev.offset # block.offset THEN "BlockOffsetMismatch"
    ELSE validate_hash(block, transactions, complexity,
                       Block_validate_transactions(transactions,
                                                   block.validator, st,
                                                   senders))

\* Block::build without the check of the hash against the target.
build_block_NoTarget(block_info_prev, validator, transactions, nonce, complexity, vt, hash) ==
    [res |-> vt,
     block |-> Block_new(block_info_prev.offset, Len(transactions),
                         block_info_prev.hash, validator, nonce, hash)]

\* The block Block::build makes, after validate_transactions gave `vt`.
build_block(block_info_prev, validator, transactions, nonce, complexity, vt, hash) ==
    [res |-> IF vt # "Ok" THEN vt
             ELSE validate_hash_complexity(HashWord(hash),
                                           Len(transactions), complexity),
     block |-> Block_new(block_info_prev.offset, Len(transactions),
                         block_info_prev.hash, validator, nonce, hash)]

\* Block::build: the result kind and, when it is Ok, the block.
Block_build(block_info_prev, validator, transactions, nonce, complexity, st, senders) ==
    build_block(block_info_prev, validator, transactions, nonce, complexity,
                Block_validate_transactions(transactions, validator, st,
                                            senders),
                Block_calc_hash(Block_calc_msg(block_info_prev.hash,
                                               validator, transactions),
                                nonce))

(***************************************************************************)
(* state.rs: roll_up and roll_down                                         *)
(***************************************************************************)
\* The receiver taken from the address whatever the type.
Receiver_AlwaysAddr(tr, block) == tr.addr

Receiver(tr, block) ==
    IF get_type(tr) = "Transfer" THEN tr.addr ELSE block.validator

\* roll_up's iteration that leaves the counter of a known coin as it is.
roll_up_step_NoCount(st, block, tr, sender) ==
    LET receiver == Receiver(tr, block)
    IN IF st.panic THEN st
       ELSE IF HasCoin(st, tr.coin)
       THEN LET ci == st.coin_info_map[tr.coin]
                st1 == [st EXCEPT !.coin_info_map[tr.coin] =
                           [ci EXCEPT !.owner = receiver]]
            IN owner_coin_add(owner_coin_remove(st1, sender, tr.coin),
                              receiver, tr.coin)
       ELSE LET order == coin_order(tr.coin, sender)
                st1 == [st EXCEPT !.coin_info_map =
                           MapPut(st.coin_info_map, tr.coin,
                                  [owner |-> receiver, order |-> order,
                                   counter |-> 1])]
            IN owner_coin_add(st1, receiver, tr.coin)

\* One iteration of the loop of roll_up.
roll_up_step(st, block, tr, sender) ==
    LET receiver == Receiver(tr, block)
    IN IF st.panic THEN st
       ELSE IF HasCoin(st, tr.coin)
       THEN LET ci == st.coin_info_map[tr.coin]
                st1 == [st EXCEPT !.coin_info_map[tr.coin] =
                           [ci EXCEPT !.owner = receiver,
                                      !.counter = ci.counter + 1]]
            IN owner_coin_add(owner_coin_remove(st1, sender, tr.coin),
                              receiver, tr.coin)
       ELSE LET order == coin_order(tr.coin, sender)
                st1 == [st EXCEPT !.coin_info_map =
                           MapPut(st.coin_info_map, tr.coin,
                                  [owner |-> receiver, order |-> order,
                                   counter |-> 1])]
            IN owner_coin_add(st1, receiver, tr.coin)

RECURSIVE roll_up_loop(_, _, _, _, _)
roll_up_loop(st, block, transactions, senders, i) ==
    IF i > Len(transactions) THEN st
    ELSE roll_up_loop(roll_up_step(st, block, transactions[i], senders[i]),
                      block, transactions, senders, i + 1)

\* The end of roll_up: `st1` is the state the loop left.
roll_up_info(st, bix, block, transactions, st1) ==
    IF st1.panic THEN st1
    ELSE [st1 EXCEPT !.last_block_info =
             [bix |-> bix,
              offset |-> st.last_block_info.offset + Len(transactions),
              hash |-> block.hash]]

roll_up(st, bix, block, transactions) ==
    IF (bix # st.last_block_info.bix + 1) \/
       (block.offset # st.last_block_info.offset) \/
       (block.hash_prev # st.last_block_info.hash)
    THEN Panicked(st)
    ELSE roll_up_info(st, bix, block, transactions,
                      roll_up_loop(st, block, transactions,
                                   calc_senders(transactions, st), 1))

\* The first loop of roll_down: one counter decremented per transaction.
RECURSIVE roll_down_counters(_, _, _)
roll_down_counters(st, transactions, i) ==
    IF i > Len(transactions) THEN st
    ELSE IF st.panic THEN st
    ELSE LET coin == transactions[i].coin
         IN IF ~HasCoin(st, coin) THEN Panicked(st)
            ELSE IF st.coin_info_map[coin].counter = 0 THEN Panicked(st)
            ELSE roll_down_counters(
                     [st EXCEPT !.coin_info_map[coin].counter = @ - 1],
                     transactions, i + 1)

\* One iteration of the second loop of roll_down.
roll_down_step(st, block, tr, sender) ==
    LET receiver == Receiver(tr, block)
    IN IF st.panic THEN st
       ELSE IF ~HasCoin(st, tr.coin) THEN Panicked(st)
       ELSE IF st.coin_info_map[tr.coin].counter = 0
       THEN LET st1 == owner_coin_remove(st, receiver, tr.coin)
            IN IF st1.panic THEN st1
               ELSE [st1 EXCEPT !.coin_info_map =
                        MapDel(st1.coin_info_map, tr.coin)]
       ELSE LET st1 == [st EXCEPT !.coin_info_map[tr.coin].owner = sender]
            IN owner_coin_add(owner_coin_remove(st1, receiver, tr.coin),
                              sender, tr.coin)

RECURSIVE roll_down_loop(_, _, _, _, _)
roll_down_loop(st, block, transactions, senders, i) ==
    IF i > Len(transactions) THEN st
    ELSE roll_down_loop(
             roll_down_step(st, block, transactions[i], senders[i]),
             block, transactions, senders, i + 1)

\* The second half of roll_down: `st2` has the counters decremented.
roll_down_owners(st2, block, transactions) ==
    IF st2.panic THEN st2
    ELSE roll_down_loop(st2, block, transactions,
                        calc_senders(transactions, st2), 1)

\* roll_down without the assertion on the hash of the block.
roll_down_NoHashAssert(st, bix, block, transactions) ==
    IF (bix # st.last_block_info.bix) \/
       (block.offset + Len(transactions) # st.last_block_info.offset)
    THEN Panicked(st)
    ELSE roll_down_owners(
             roll_down_counters(
                 [st EXCEPT !.last_block_info =
                     [bix |-> st.last_block_info.bix - 1,
                      offset |-> block.offset,
                      hash |-> block.hash_prev]],
                 transactions, 1),
             block, transactions)

roll_down(st, bix, block, transactions) ==
    IF (bix # st.last_block_info.bix) \/
       (block.offset + Len(transactions) # st.last_block_info.offset) \/
       (block.hash # st.last_block_info.hash)
    THEN Panicked(st)
    ELSE roll_down_owners(
             roll_down_counters(
                 [st EXCEPT !.last_block_info =
                     [bix |-> st.last_block_info.bix - 1,
                      offset |-> block.offset,
                      hash |-> block.hash_prev]],
                 transactions, 1),
             block, transactions)

\* Block::mine: the first nonce of the search whose hash meets the target,
\* -1 when the search finds none.
Block_mine(block_hash_prev, validator, transactions, complexity) ==
    LET msg == Block_calc_msg(block_hash_prev, validator, transactions)
        good == {n \in Nonces :
                    validate_hash_complexity(
                        HashWord(Block_calc_hash(msg, n)),
                        Len(transactions), complexity) = "Ok"}
    IN IF good = {} THEN -1
       ELSE CHOOSE n \in good : \A m \in good : n <= m

(***************************************************************************)
(* The ledger: a node that validates blocks and rolls its state up and     *)
(* down.                                                                   *)
(***************************************************************************)
VARIABLES state, chain, before, undone, op, rolls, txs, senders, result,
          candidate, pow, call, pool

vars == <<state, chain, before, undone, op, rolls, txs, senders, result,
          candidate, pow, call, pool>>

\* A transaction of `key` on `coin`, signed with the coin's live counter.
Signed(st, coin, addr, key) ==
    Transaction_build(coin, addr, key, get_coin_counter(st, coin))

NextCoin(c, n) == ((c + n - 1) % NCoins) + 1

\* A transfer of one coin.
TransferUnits(st) ==
    {<<Signed(st, c, a, k)>> : c \in Coins, a \in Keys, k \in Keys}

\* A transfer with a fee.
FeeUnits(st) ==
    {<<Signed(st, c, a, k), Signed(st, NextCoin(c, 1), FeeAddr, k)>> :
        c \in Coins, a \in Keys, k \in Keys}

\* A split with the three transfers the validator answers with.
SplitUnits(st, validator) ==
    {<<Signed(st, c, SplitAddr, k),
       Signed(st, NextCoin(c, 1), a, validator),
       Signed(st, NextCoin(c, 2), a, validator),
       Signed(st, NextCoin(c, 3), a, validator)>> :
        c \in Coins, a \in Keys, k \in Keys}

\* A merge with the transfer the validator answers with.
MergeUnits(st, validator) ==
    {<<Signed(st, NextCoin(c, 1), MergeAddr, k),
       Signed(st, NextCoin(c, 2), MergeAddr, k),
       Signed(st, NextCoin(c, 3), MergeAddr, k),
       Signed(st, c, a, validator)>> :
        c \in Coins, a \in Keys, k \in Keys}

\* Transactions of the applied blocks, sent again as they are.
Applied == UNION {SeqRange(chain[i].transactions) : i \in DOMAIN chain}

Candidates(st, validator) ==
    TransferUnits(st) \cup FeeUnits(st) \cup SplitUnits(st, validator)
        \cup MergeUnits(st, validator) \cup {<<tr>> : tr \in Applied}

\* No block under test.
NoBlock == Block_new(0, 0, GENESIS_HASH, 0, 0, GENESIS_HASH)

\* The proof of work under test: the inputs of the target check or of
\* Block::mine, and the position of mine's loop.
NoPow == [hash |-> 0, size |-> 0, complexity |-> 0, msg |-> <<>>,
          iterations |-> <<>>, iteration |-> 0, tried |-> <<>>,
          ret |-> <<>>]

\* No call under test: the arguments that no other variable holds.
NoCall == [bix |-> 0]

\* Pool::new.
Pool_new == [groups |-> <<>>, senders |-> <<>>]

Idle == /\ txs = <<>>
        /\ senders = <<>>
        /\ result = "none"
        /\ candidate = NoBlock
        /\ pow = NoPow
        /\ call = NoCall
        /\ pool = Pool_new

Init == /\ state = State_new
        /\ chain = <<>>
        /\ before = <<>>
        /\ undone = State_new
        /\ op = "new"
        /\ rolls = 0
        /\ Idle

\* The block a validator mines over `transactions` on top of the state.
MinedBlock(st, validator, transactions) ==
    LET prev == st.last_block_info
        nonce == Block_mine(prev.hash, validator, transactions,
                            ModelComplexity)
        msg == Block_calc_msg(prev.hash, validator, transactions)
    IN Block_new(prev.offset, Len(transactions), prev.hash, validator, nonce,
                 Block_calc_hash(msg, nonce))

\* What Block::validate answers for that block against the state.
BlockVerdict(st, validator, transactions) ==
    Block_validate(MinedBlock(st, validator, transactions), transactions,
                   st.last_block_info, ModelComplexity, st,
                   calc_senders(transactions, st))

\* The block mined over `transactions` as a peer sends it, with `size` in its
\* size field.
SentBlock(st, validator, transactions, size) ==
    [MinedBlock(st, validator, transactions) EXCEPT !.size = size]

\* A block is mined over `transactions`, arrives with `size` in its size
\* field, passes Block::validate against the state and is rolled up.
AcceptBlock(validator, transactions, size) ==
    LET block == SentBlock(state, validator, transactions, size)
        bix == state.last_block_info.bix + 1
    IN /\ ~state.panic
       /\ Len(chain) < MaxBlocks
       /\ rolls < MaxRolls
       /\ block.nonce >= 0
       /\ Block_validate(block, transactions, state.last_block_info,
                         ModelComplexity, state,
                         calc_senders(transactions, state)) = "Ok"
       /\ state' = roll_up(state, bix, block, transactions)
       /\ chain' = Append(chain, [bix |-> bix, block |-> block,
                                  transactions |-> transactions])
       /\ before' = Append(before, state)
       /\ op' = "roll_up"
       /\ rolls' = rolls + 1
       /\ UNCHANGED <<call, pool, undone, txs, senders, result, candidate,
                      pow>>

\* The last applied block is rolled down.
RollDown ==
    /\ ~state.panic
    /\ chain # <<>>
    /\ rolls < MaxRolls
    /\ LET bd == chain[Len(chain)]
       IN state' = roll_down(state, bd.bix, bd.block, bd.transactions)
    /\ chain' = SubSeq(chain, 1, Len(chain) - 1)
    /\ undone' = before[Len(before)]
    /\ before' = SubSeq(before, 1, Len(before) - 1)
    /\ op' = "roll_down"
    /\ rolls' = rolls + 1
    /\ UNCHANGED <<call, pool, txs, senders, result, candidate, pow>>

Next == \/ \E transactions \in Candidates(state, Validator) :
               \E size \in {Len(transactions), Len(transactions) + 1} :
                   AcceptBlock(Validator, transactions, size)
        \/ RollDown

Spec == Init /\ [][Next]_vars

(***************************************************************************)
(* Properties of the ledger.                                               *)
(***************************************************************************)
InBucket(st, owner, coin) ==
    /\ owner \in DOMAIN st.owner_coins_map
    /\ st.coin_info_map[coin].order \in DOMAIN st.owner_coins_map[owner]
    /\ coin \in st.owner_coins_map[owner][st.coin_info_map[coin].order]

OwnersOf(st) ==
    DOMAIN st.owner_coins_map \cup
        {st.coin_info_map[c].owner : c \in DOMAIN st.coin_info_map}

\* C1: in every state reached by accepted roll-ups and matching roll-downs
\* the two indices agree: coin_info[C].owner = O exactly when C is in
\* owner_coins[O][coin_info[C].order].
C1_IndicesAgree ==
    ~state.panic =>
        \A c \in DOMAIN state.coin_info_map : \A o \in OwnersOf(state) :
            (state.coin_info_map[c].owner = o) <=> InBucket(state, o, c)

\* C2: Block::validate_transactions rejects every list with a transaction
\* whose coin fails validate_coin for its recovered sender.  Stated for the
\* coins that exist in the state, where the failure is that the sender is not
\* the owner (TransactionInvalidSender).
FailsOwnerCheck(st, transactions) ==
    LET snd == calc_senders(transactions, st)
    IN \E i \in DOMAIN transactions :
           /\ HasCoin(st, transactions[i].coin)
           /\ get_owner(st, transactions[i].coin) # snd[i]

FailsCoinCheck(st, transactions) ==
    LET snd == calc_senders(transactions, st)
    IN \E i \in DOMAIN transactions :
           validate_coin(transactions[i], st, snd[i]) # "Ok"

C2_BadCoinRejected ==
    ~state.panic =>
        \A transactions \in Candidates(state, Validator) :
            FailsOwnerCheck(state, transactions) =>
                Block_validate_transactions(
                    transactions, Validator, state,
                    calc_senders(transactions, state)) # "Ok"

\* C3: rolling a block down right after it was rolled up gives back the
\* state the roll-up started from.
C3_RollDownRestores ==
    (op = "roll_down" /\ ~state.panic) => state = undone

\* C4: a transaction that an applied block holds is rejected by
\* Block::validate when a later block holds it again.
C4_ReplayRejected ==
    ~state.panic =>
        \A transactions \in Candidates(state, Validator) :
            (SeqRange(transactions) \cap Applied # {}) =>
                BlockVerdict(state, Validator, transactions) # "Ok"

(***************************************************************************)
(* Group::new, Ext::new and Block::validate_transactions applied to one    *)
(* transaction list against one state.                                     *)
(***************************************************************************)
\* The longest list Group::from_vec cuts: three merges and a fee.
MaxLen == MergeSize + 1

NextKey(k) == IF k + 1 \in Keys THEN k + 1 ELSE Validator

\* The coins of a list: from any coin on, every `step`-th coin, so that the
\* list repeats a coin (step 0, or a step that wraps) or does not.
CoinSeqs(n) ==
    {[i \in 1..n |-> NextCoin(c, (i - 1) * step)] : c \in Coins, step \in 0..2}

AddrSeqs(n) == [1..n -> TypeAddrs \cup Keys]

\* The signers of a list: one key for all, or one transaction of another key.
SignerSeqs(n) ==
    {[i \in 1..n |-> k] : k \in Keys} \cup
    {[i \in 1..n |-> IF i = p THEN NextKey(k) ELSE k] : k \in Keys, p \in 1..n}

\* The list that `ks` sign over the coins `cs` to the addresses `as`, each
\* with the live counter of its coin.
SignedList(st, cs, as, ks) ==
    [i \in DOMAIN cs |-> Signed(st, cs[i], as[i], ks[i])]

\* The first block of a chain: a user splits coin 4 and the validator answers
\* with coins 1, 2 and 3.
GenesisSplit ==
    <<Signed(State_new, 4, SplitAddr, Validator + 1),
      Signed(State_new, 1, Validator + 1, Validator),
      Signed(State_new, 2, Validator + 1, Validator),
      Signed(State_new, 3, Validator + 1, Validator)>>

SplitState ==
    roll_up(State_new, 1, MinedBlock(State_new, Validator, GenesisSplit),
            GenesisSplit)

InitTx == /\ state \in {State_new, SplitState}
          /\ chain = <<>>
          /\ before = <<>>
          /\ undone = State_new
          /\ op = "new"
          /\ rolls = 0
          /\ Idle

NewGroup(transactions) ==
    LET snd == calc_senders(transactions, state)
    IN /\ txs' = transactions
       /\ senders' = snd
       /\ result' = Group_new(transactions, state, snd)
       /\ op' = "Group_new"
       /\ UNCHANGED <<call, pool, state, chain, before, undone, rolls,
                      candidate, pow>>

NewExt(transactions) ==
    LET snd == calc_senders(transactions, state)
    IN /\ txs' = transactions
       /\ senders' = snd
       /\ result' = Ext_new(transactions, state, snd)
       /\ op' = "Ext_new"
       /\ UNCHANGED <<call, pool, state, chain, before, undone, rolls,
                      candidate, pow>>

ValidateTransactions(transactions) ==
    LET snd == calc_senders(transactions, state)
    IN /\ txs' = transactions
       /\ senders' = snd
       /\ result' = Block_validate_transactions(transactions, Validator,
                                                state, snd)
       /\ op' = "validate_transactions"
       /\ UNCHANGED <<call, pool, state, chain, before, undone, rolls,
                      candidate, pow>>

NextTx ==
    /\ op = "new"
    /\ \E n \in 0..MaxLen :
           \E cs \in CoinSeqs(n), as \in AddrSeqs(n), ks \in SignerSeqs(n) :
               \/ NewGroup(SignedList(state, cs, as, ks))
               \/ NewExt(SignedList(state, cs, as, ks))
               \/ ValidateTransactions(SignedList(state, cs, as, ks))

SpecTx == InitTx /\ [][NextTx]_vars

(***************************************************************************)
(* Properties of the validation functions.                                 *)
(***************************************************************************)
HasRepeatedCoin(transactions) ==
    \E i, j \in DOMAIN transactions :
        i # j /\ transactions[i].coin = transactions[j].coin

MixedSenders(snd) == \E i, j \in DOMAIN snd : snd[i] # snd[j]

Types(transactions) ==
    [i \in DOMAIN transactions |-> get_type(transactions[i])]

\* The order of the coin of the i-th transaction of the list under test.
OrderAt(i) == Transaction_get_order(txs[i], state, senders[i])

\* The second and the third coin are one order below the first.
OrdersFit == (OrderAt(2) + 1 = OrderAt(1)) /\ (OrderAt(3) + 1 = OrderAt(1))

\* C5: Block::validate_transactions answers CoinNotUnique for every list in
\* which two transactions have the same coin, whatever else is wrong with it.
C5_DuplicateCoin ==
    (op = "validate_transactions" /\ HasRepeatedCoin(txs)) =>
        result = "CoinNotUnique"

\* A list with a repeated coin that also starts with a fee and has two
\* senders is answered with CoinNotUnique.
C5_Witness ==
    /\ op = "validate_transactions"
    /\ Len(txs) = MaxLen
    /\ HasRepeatedCoin(txs)
    /\ get_type(txs[1]) = "Fee"
    /\ MixedSenders(senders)
    /\ result = "CoinNotUnique"

GroupShapes ==
    {<<"Transfer">>, <<"Transfer", "Fee">>, <<"Split">>, <<"Split", "Fee">>,
     <<"Merge", "Merge", "Merge">>, <<"Merge", "Merge", "Merge", "Fee">>}

ValidGroup ==
    /\ Len(txs) > 0
    /\ ~HasRepeatedCoin(txs)
    /\ ~MixedSenders(senders)
    /\ Types(txs) \in GroupShapes
    /\ (get_type(txs[1]) = "Merge" => OrdersFit)

\* C6: Group::new succeeds exactly for a non-empty list of distinct coins and
\* one sender whose shape is [Transfer], [Transfer, Fee], [Split],
\* [Split, Fee], [Merge, Merge, Merge] or [Merge, Merge, Merge, Fee], the
\* merge coins' orders satisfying o1 + 1 = o0 and o2 + 1 = o0.
C6_GroupNew == (op = "Group_new") => ((result = "Ok") <=> ValidGroup)

\* Three merges and a fee are accepted.
C6_Witness ==
    /\ op = "Group_new"
    /\ Types(txs) = <<"Merge", "Merge", "Merge", "Fee">>
    /\ result = "Ok"

FeeNotTrailing ==
    \E i \in DOMAIN txs : i < Len(txs) /\ get_type(txs[i]) = "Fee"

\* C7: Group::new reports the first violated rule: an empty list is
\* TransactionEmpty, then a repeated coin is CoinNotUnique, then senders that
\* differ are TransactionInvalidSender, then a fee that is not the last
\* transaction or any other wrong shape, type or order is
\* TransactionBrokenGroup.
C7_GroupErrorPrecedence ==
    (op = "Group_new") =>
        /\ (Len(txs) = 0) => (result = "TransactionEmpty")
        /\ (Len(txs) > 0 /\ HasRepeatedCoin(txs)) => (result = "CoinNotUnique")
        /\ (Len(txs) > 0 /\ ~HasRepeatedCoin(txs) /\ MixedSenders(senders)) =>
               (result = "TransactionInvalidSender")
        /\ (Len(txs) > 0 /\ ~HasRepeatedCoin(txs) /\ ~MixedSenders(senders)
                /\ (FeeNotTrailing \/ ~ValidGroup)) =>
               (result = "TransactionBrokenGroup")

\* A list that breaks three rules at once (a repeated coin, two senders, a
\* leading fee) is answered with the first of them.
C7_Witness ==
    /\ op = "Group_new"
    /\ HasRepeatedCoin(txs)
    /\ MixedSenders(senders)
    /\ get_type(txs[1]) = "Fee"
    /\ result = "CoinNotUnique"

\* Three merge transactions of distinct coins and one sender.
MergeTriple(transactions, snd) ==
    /\ Len(transactions) = MergeSize
    /\ \A i \in DOMAIN transactions : get_type(transactions[i]) = "Merge"
    /\ ~HasRepeatedCoin(transactions)
    /\ ~MixedSenders(snd)

\* C8, as claimed: a group of three merge transactions succeeds if and only
\* if its three coins have the same order.
C8_SameOrderMerge ==
    (op = "Group_new" /\ MergeTriple(txs, senders)) =>
        ((result = "Ok") <=>
            (OrderAt(2) = OrderAt(1) /\ OrderAt(3) = OrderAt(1)))

\* C8, amended: a group of three merge transactions succeeds if and only if
\* its second and third coins are one order below the first (o1 + 1 = o0 and
\* o2 + 1 = o0); the order it asks of its extension is o0 + 1, and a block
\* list made of the group and one transfer of the validator is accepted
\* exactly when the transferred coin has that order.
C8_MergeOrders ==
    /\ (op = "Group_new" /\ MergeTriple(txs, senders)) =>
           /\ (result = "Ok") <=> OrdersFit
           /\ (result = "Ok") =>
                  Group_get_order(txs, state, senders) = OrderAt(1) + 1
    /\ (/\ op = "validate_transactions"
        /\ Len(txs) = MergeSize + 1
        /\ ~HasRepeatedCoin(txs)
        /\ MergeTriple(SubSeq(txs, 1, MergeSize),
                       SubSeq(senders, 1, MergeSize))
        /\ OrdersFit
        /\ get_type(txs[MergeSize + 1]) = "Transfer"
        /\ senders[MergeSize + 1] = Validator) =>
           ((result = "Ok") <=> (OrderAt(MergeSize + 1) = OrderAt(1) + 1))

\* A merge of coins of orders (o, o - 1, o - 1) is accepted.
C8_Witness ==
    /\ op = "Group_new"
    /\ MergeTriple(txs, senders)
    /\ OrdersFit
    /\ result = "Ok"

ValidExt ==
    /\ ~HasRepeatedCoin(txs)
    /\ ~MixedSenders(senders)
    /\ \/ Len(txs) = 0
       \/ Len(txs) = 1 /\ get_type(txs[1]) = "Transfer"
       \/ /\ Len(txs) = 3
          /\ \A i \in DOMAIN txs : get_type(txs[i]) = "Transfer"
          /\ \A i \in DOMAIN txs : txs[i].addr = txs[1].addr
          /\ OrdersFit

\* C9: Ext::new succeeds exactly for distinct coins, one sender and 0
\* transactions, 1 transfer, or 3 transfers to one address with orders
\* o1 + 1 = o0 and o2 + 1 = o0; a repeated coin fails with CoinNotUnique,
\* senders that differ with TransactionInvalidSender and a wrong shape with
\* TransactionBrokenExt.
C9_ExtNew ==
    (op = "Ext_new") =>
        /\ (result = "Ok") <=> ValidExt
        /\ HasRepeatedCoin(txs) => (result = "CoinNotUnique")
        /\ (~HasRepeatedCoin(txs) /\ MixedSenders(senders)) =>
               (result = "TransactionInvalidSender")
        /\ (~HasRepeatedCoin(txs) /\ ~MixedSenders(senders) /\ ~ValidExt) =>
               (result = "TransactionBrokenExt")

\* C10: in a list accepted by Block::validate_transactions the addr of every
\* transaction of an extension is the sender of the group it follows.  Only
\* lists whose coins all pass validate_coin are looked at, so that a list
\* refuting it is one that no coin check would have stopped.
C10_ExtPaysGroupSender ==
    (/\ op = "validate_transactions"
     /\ result = "Ok"
     /\ ~FailsCoinCheck(state, txs)) =>
        \A item \in SeqRange(group_transactions(txs, state, senders, 0)) :
            \A i \in DOMAIN item.ext :
                item.ext[i].addr = senders[item.offset + 1]

\* The value of the coins of the transactions from..to of the list under
\* test: 2^order each.
RECURSIVE ValueOf(_, _)
ValueOf(from, to) ==
    IF from > to THEN 0 ELSE Pow2(OrderAt(from)) + ValueOf(from + 1, to)

\* The number of transactions of a group that are not its fee.
MainSize(group) ==
    IF get_type(group[Len(group)]) = "Fee" THEN Len(group) - 1 ELSE Len(group)

\* What C11 says of the group and the extension that start after `offset`
\* transactions of the list under test.
ItemConserves(offset, group, ext) ==
    LET o == OrderAt(offset + 1)
        e == offset + Len(group)
    IN /\ (Group_get_type(group) = "Split") =>
              /\ Len(ext) = 3
              /\ OrderAt(e + 1) = o - 1
              /\ OrderAt(e + 2) = o - 2
              /\ OrderAt(e + 3) = o - 2
       /\ (Group_get_type(group) = "Merge") =>
              /\ Len(ext) = 1
              /\ OrderAt(offset + 2) = o - 1
              /\ OrderAt(offset + 3) = o - 1
              /\ OrderAt(e + 1) = o + 1
       /\ (Group_get_type(group) \in {"Split", "Merge"}) =>
              ValueOf(e + 1, e + Len(ext)) =
                  ValueOf(offset + 1, offset + MainSize(group))

\* C11: in every accepted transaction list value is conserved by Split and
\* Merge: a Split group of a coin of order o is followed by extension coins of
\* orders (o-1, o-2, o-2), a Merge group of coins of orders (o, o-1, o-1) by
\* one extension coin of order o+1, so that the sum of 2^order over the
\* extension coins equals the sum over the group's coins other than the fee.
C11_ValueConserved ==
    (op = "validate_transactions" /\ result = "Ok") =>
        \A item \in SeqRange(group_transactions(txs, state, senders, 0)) :
            ItemConserves(item.offset, item.group, item.ext)

\* An accepted list that splits a coin of order 2 into coins of orders 1, 0, 0.
C11_Witness ==
    /\ op = "validate_transactions"
    /\ result = "Ok"
    /\ Len(txs) = 4
    /\ get_type(txs[1]) = "Split"
    /\ OrderAt(1) = 2
    /\ ValueOf(2, 4) = Pow2(OrderAt(1))

\* The groups and extensions of the list under test.
Items == group_transactions(txs, state, senders, 0)

\* The extension of the item is not empty and its sender is not the validator.
ExtSenderWrong(item) ==
    /\ Len(item.ext) > 0
    /\ senders[item.offset + Len(item.group) + 1] # Validator

\* The group of the item is a Split or a Merge and its order is not the order
\* of the extension.
ExtOrderWrong(item) ==
    LET g == item.offset + Len(item.group)
    IN /\ Group_get_type(item.group) \in {"Split", "Merge"}
       /\ Group_get_order(item.group, state,
                          SubSeq(senders, item.offset + 1, g)) #
          Ext_get_order(item.ext, state,
                        SubSeq(senders, g + 1, g + Len(item.ext)))

\* Every item before the i-th passed both checks.
PassedBefore(i) ==
    \A j \in 1..(i - 1) : ~ExtSenderWrong(Items[j]) /\ ~ExtOrderWrong(Items[j])

\* C13: Block::validate_transactions answers BlockValidatorMismatch when the
\* sender of a non-empty extension is not the block's validator and
\* BlockOrderMismatch when the order of a Split or Merge group differs from
\* the order of its extension, for the first extension that fails; a list is
\* accepted only if every extension is signed by the validator and matches
\* its group's order.
C13_ExtensionChecks ==
    (op = "validate_transactions" /\ ~HasRepeatedCoin(txs)) =>
        /\ \A i \in DOMAIN Items :
               (PassedBefore(i) /\ ExtSenderWrong(Items[i])) =>
                   (result = "BlockValidatorMismatch")
        /\ \A i \in DOMAIN Items :
               (PassedBefore(i) /\ ~ExtSenderWrong(Items[i])
                    /\ ExtOrderWrong(Items[i])) =>
                   (result = "BlockOrderMismatch")
        /\ (result = "Ok") => PassedBefore(Len(Items) + 1)

\* A merge answered by somebody who is not the validator with a coin of the
\* right order is answered with BlockValidatorMismatch.
C13_Witness ==
    /\ op = "validate_transactions"
    /\ Len(txs) = MergeSize + 1
    /\ Len(Items) = 1
    /\ ExtSenderWrong(Items[1])
    /\ ~ExtOrderWrong(Items[1])
    /\ result = "BlockValidatorMismatch"

RECURSIVE GroupedSize(_, _)
GroupedSize(items, i) ==
    IF i > Len(items) THEN 0
    ELSE Len(items[i].group) + Len(items[i].ext) + GroupedSize(items, i + 1)

\* The groups and extensions cover every transaction of the list under test.
Covered == GroupedSize(Items, 1) = Len(txs)

\* C14: for every transaction list with distinct coins
\* Block::validate_transactions returns a value and never aborts: BlockBroken
\* whenever the groups and extensions of the greedy grouping do not cover
\* every transaction (a Split group followed by fewer than 3 transactions, a
\* Merge group followed by none, a leading Merge with fewer than 3
\* transactions left), Ok for the empty list and for a single Transfer
\* without Fee.
C14_AlwaysReturns ==
    (op = "validate_transactions" /\ ~HasRepeatedCoin(txs)) =>
        /\ result # "Panic"
        /\ (~Covered /\ PassedBefore(Len(Items) + 1)) =>
               (result = "BlockBroken")
        /\ (Len(txs) = 0) => (result = "Ok")
        /\ (Len(txs) = 1 /\ get_type(txs[1]) = "Transfer") => (result = "Ok")

(***************************************************************************)
(* Block::validate and Block::build applied to one block over one          *)
(* transaction list, against one state and its last block info.            *)
(***************************************************************************)
\* Each unit without its last transaction.
Truncated(units) == {SubSeq(u, 1, Len(u) - 1) : u \in units}

\* The lists a block is built over or validated with: nothing, one unit, or
\* a split or merge unit cut short.
BlockLists(st) ==
    {<<>>} \cup TransferUnits(st) \cup FeeUnits(st)
        \cup SplitUnits(st, Validator) \cup MergeUnits(st, Validator)
        \cup Truncated(SplitUnits(st, Validator) \cup MergeUnits(st, Validator))

\* A hash that no block carries.
OtherHash == <<"other">>

InitBlock == InitTx

\* Block::validate of `b` with `transactions` against the state.
ValidateBlock(b, transactions) ==
    LET snd == calc_senders(transactions, state)
    IN /\ txs' = transactions
       /\ senders' = snd
       /\ candidate' = b
       /\ result' = Block_validate(b, transactions, state.last_block_info,
                                   ModelComplexity, state, snd)
       /\ op' = "Block_validate"
       /\ UNCHANGED <<call, pool, state, chain, before, undone, rolls, pow>>

\* Block::build over `transactions` on top of the state.  The candidate is
\* the block of Block::new's arguments, returned when the result is Ok.
BuildBlock(validator, transactions, nonce) ==
    LET snd == calc_senders(transactions, state)
        built == Block_build(state.last_block_info, validator, transactions,
                             nonce, ModelComplexity, state, snd)
    IN /\ txs' = transactions
       /\ senders' = snd
       /\ candidate' = built.block
       /\ result' = built.res
       /\ op' = "Block_build"
       /\ UNCHANGED <<call, pool, state, chain, before, undone, rolls, pow>>

\* The blocks of `validator` with `nonce` over `transactions`: the previous
\* hash, the offset and the size are right or wrong, the hash is the one of
\* the nonce or the one of another nonce.
BlocksOver(prev, validator, transactions, nonce) ==
    {Block_new(offset, size, hash_prev, validator, nonce,
               Block_calc_hash(Block_calc_msg(hash_prev, validator,
                                              transactions), hn)) :
        offset \in {prev.offset, prev.offset + 1},
        size \in {Len(transactions), Len(transactions) + 1},
        hash_prev \in {prev.hash, OtherHash},
        hn \in Nonces}

NextBlock ==
    /\ op = "new"
    /\ \E transactions \in BlockLists(state), validator \in Keys,
          nonce \in Nonces :
           \/ BuildBlock(validator, transactions, nonce)
           \/ \E b \in BlocksOver(state.last_block_info, validator,
                                  transactions, nonce) :
                  ValidateBlock(b, transactions)

SpecBlock == InitBlock /\ [][NextBlock]_vars

(***************************************************************************)
(* Properties of Block::validate and Block::build.                         *)
(***************************************************************************)
PrevHashDiffers == candidate.hash_prev # state.last_block_info.hash

OffsetDiffers == candidate.offset # state.last_block_info.offset

\* What Block::validate_transactions answers for the list under test and the
\* candidate's validator.
TxVerdict ==
    Block_validate_transactions(txs, candidate.validator, state, senders)

HashDiffers ==
    candidate.hash #
        Block_calc_hash(Block_calc_msg(candidate.hash_prev,
                                       candidate.validator, txs),
                        candidate.nonce)

TargetMissed ==
    validate_hash_complexity(HashWord(candidate.hash), Len(txs),
                             ModelComplexity) # "Ok"

ValidateOrder ==
    (op = "Block_validate") =>
        /\ PrevHashDiffers => (result = "BlockPreviousHashMismatch")
        /\ (~PrevHashDiffers /\ OffsetDiffers) =>
               (result = "BlockOffsetMismatch")
        /\ (~PrevHashDiffers /\ ~OffsetDiffers /\ TxVerdict # "Ok") =>
               (result = TxVerdict)
        /\ (~PrevHashDiffers /\ ~OffsetDiffers /\ TxVerdict = "Ok"
                /\ HashDiffers) => (result = "BlockInvalidHash")
        /\ (~PrevHashDiffers /\ ~OffsetDiffers /\ TxVerdict = "Ok"
                /\ ~HashDiffers /\ TargetMissed) =>
               (result = "BlockInvalidHashComplexity")
        /\ (result = "Ok") <=>
               (~PrevHashDiffers /\ ~OffsetDiffers /\ TxVerdict = "Ok"
                    /\ ~HashDiffers /\ ~TargetMissed)

Siblings ==
    {Block_new(offset, size, candidate.hash_prev, candidate.validator,
               candidate.nonce, hash) :
        offset \in {candidate.offset, candidate.offset + 1},
        size \in {Len(txs), Len(txs) + 1},
        hash \in {OtherHash} \cup
                 {Block_calc_hash(Block_calc_msg(candidate.hash_prev,
                                                 candidate.validator, txs),
                                  hn) : hn \in Nonces}}

\* C15: when Block::build returns a block b, b.offset is the predecessor's
\* offset, b.size the number of transactions, b.hash_prev the predecessor's
\* hash, and b.validate with the same arguments returns Ok; when Block::build
\* fails, validate of every block with the same validator, nonce, hash_prev
\* and transactions fails too.
C15_BuildValidateAgree ==
    (op = "Block_build") =>
        /\ (result = "Ok") =>
               /\ candidate.offset = state.last_block_info.offset
               /\ candidate.size = Len(txs)
               /\ candidate.hash_prev = state.last_block_info.hash
               /\ Block_validate(candidate, txs, state.last_block_info,
                                 ModelComplexity, state, senders) = "Ok"
        /\ (result # "Ok") =>
               \A b \in Siblings :
                   Block_validate(b, txs, state.last_block_info,
                                  ModelComplexity, state, senders) # "Ok"

\* A block built over a split and its three answers.
C15_Witness ==
    /\ op = "Block_build"
    /\ result = "Ok"
    /\ Len(txs) = 4
    /\ get_type(txs[1]) = "Split"
    /\ candidate.size = 4

(***************************************************************************)
(* The proof of work: validate_hash_complexity applied to one word, and    *)
(* the loop of Block::mine.                                                *)
(***************************************************************************)
MaxIterations == 3

Words == 0..(Pow2(WordBits) - 1)

Sizes == 0..MaxLen

Complexities == 0..WordBits

\* The iterations argument of Block::mine: None, or Some(n).
IterationCaps == {<<>>} \cup {<<n>> : n \in 0..MaxIterations}

\* What the random generator can give for a nonce.
NonceBytes == {to_bytes(nonce) : nonce \in Nonces}

\* The lists mined over: of 0, 1, 2 and 4 transactions.
MineLists == {SubSeq(GenesisSplit, 1, n) : n \in {0, 1, 2, Len(GenesisSplit)}}

InitPow == /\ state = State_new
           /\ chain = <<>>
           /\ before = <<>>
           /\ undone = State_new
           /\ op = "new"
           /\ rolls = 0
           /\ Idle

\* validate_hash_complexity(hash, size, complexity).
CheckTarget(hash, size, complexity) ==
    /\ pow' = [NoPow EXCEPT !.hash = hash, !.size = size,
                            !.complexity = complexity]
    /\ result' = validate_hash_complexity(hash, size, complexity)
    /\ op' = "validate_hash_complexity"
    /\ UNCHANGED <<call, pool, state, chain, before, undone, rolls, txs,
                   senders, candidate>>

\* Block::mine up to its loop: the message and the limit are computed, the
\* assertion of calc_limit_hash ends the call for complexity 0.
StartMine(block_hash_prev, validator, transactions, complexity, iterations) ==
    /\ txs' = transactions
    /\ pow' = [NoPow EXCEPT
                  !.msg = Block_calc_msg(block_hash_prev, validator,
                                         transactions),
                  !.size = Len(transactions),
                  !.complexity = complexity,
                  !.iterations = iterations]
    /\ op' = IF Len(calc_limit_hash(Len(transactions), complexity)) = 0
             THEN "mine_panic" ELSE "mine"
    /\ UNCHANGED <<call, pool, state, chain, before, undone, rolls, senders,
                   result, candidate>>

\* The break of the loop taken one iteration late.
MineExhausted_Late ==
    (Len(pow.iterations) = 1) /\ (pow.iteration > pow.iterations[1])

\* The loop is at its break: the iterations are capped and used up.
MineExhausted ==
    (Len(pow.iterations) = 1) /\ (pow.iteration >= pow.iterations[1])

\* The digest of the message and the nonce is valid against the limit.
NonceFound(nonce_bytes) ==
    \E hash_bytes \in {HashBytes(Block_calc_hash(pow.msg,
                                                from_bytes(nonce_bytes)))} :
        \E limit_hash \in {calc_limit_hash(pow.size, pow.complexity)} :
            is_hash_valid(hash_bytes, limit_hash)

\* One iteration of the loop: the generator gives `nonce_bytes`, the digest of
\* the message and the nonce is compared with the limit, and the nonce is
\* returned if the digest is valid.  Without a cap the model stops the loop
\* after MaxIterations + 1 iterations.
TryNonce(nonce_bytes) ==
    /\ ~MineExhausted
    /\ pow.iteration <= MaxIterations
    /\ \E found \in {NonceFound(nonce_bytes)} :
           /\ pow' = [pow EXCEPT
                         !.tried = Append(@, nonce_bytes),
                         !.iteration = IF found THEN @ ELSE @ + 1,
                         !.ret = IF found THEN <<nonce_bytes>> ELSE @]
           /\ op' = IF found THEN "mined" ELSE "mine"
    /\ UNCHANGED <<call, pool, state, chain, before, undone, rolls, txs,
                   senders, result, candidate>>

\* The break of the loop and the return of None.
StopMine ==
    /\ op = "mine"
    /\ MineExhausted
    /\ op' = "mined"
    /\ UNCHANGED <<call, pool, state, chain, before, undone, rolls, txs,
                   senders, result, candidate, pow>>

NextPow ==
    /\ op = "new"
    /\ \E hash \in Words, size \in Sizes, complexity \in Complexities :
           CheckTarget(hash, size, complexity)

SpecPow == InitPow /\ [][NextPow]_vars

NextMine ==
    \/ /\ op = "new"
       /\ \E validator \in Keys, transactions \in MineLists,
             complexity \in {0, ModelComplexity},
             iterations \in IterationCaps :
              StartMine(GENESIS_HASH, validator, transactions, complexity,
                        iterations)
    \/ /\ op = "mine"
       /\ \E nonce_bytes \in NonceBytes : TryNonce(nonce_bytes)
    \/ StopMine

\* The thread that runs Block::mine keeps running: a loop that can take a
\* step takes one.
SpecMine == InitPow /\ [][NextMine]_vars /\ WF_vars(NextMine)

(***************************************************************************)
(* Properties of the proof of work.                                        *)
(***************************************************************************)
\* Bytes read as a big-endian number.
BigEndian(bytes) == from_bytes(Reverse(bytes))

\* floor(2^(WordBits - complexity) / max(1, size)).
LimitNumber(size, complexity) ==
    Pow2(WordBits - complexity) \div (IF size > 1 THEN size ELSE 1)

\* C16: validate_hash_complexity(hash, size, complexity) returns Ok exactly
\* when the hash, its bytes read as a big-endian number, is at most
\* floor(2^(WordBits - complexity) / max(1, size)), and
\* BlockInvalidHashComplexity otherwise; size 0 and size 1 have the same
\* limit.  Stated for the complexities calc_limit_hash asserts (above 0).
C16_TargetIsLimit ==
    (op = "validate_hash_complexity" /\ pow.complexity > 0) =>
        /\ result \in {"Ok", "BlockInvalidHashComplexity"}
        /\ (result = "Ok") <=>
               (BigEndian(to_bytes(pow.hash)) <=
                    LimitNumber(pow.size, pow.complexity))
        /\ (pow.size = 0) =>
               (result = validate_hash_complexity(pow.hash, 1,
                                                  pow.complexity))

\* A word above the limit as a number whose bytes, read big-endian, are
\* below it, is accepted for three transactions.
C16_Witness ==
    /\ op = "validate_hash_complexity"
    /\ pow.complexity = ModelComplexity
    /\ pow.size = 3
    /\ pow.hash > LimitNumber(pow.size, pow.complexity)
    /\ BigEndian(to_bytes(pow.hash)) = LimitNumber(pow.size, pow.complexity)
    /\ result = "Ok"

\* The number of bits of n.
RECURSIVE BitLen(_)
BitLen(n) == IF n = 0 THEN 0 ELSE 1 + BitLen(n \div 2)

\* The leading zero bits of the bytes of a word read big-endian.
LeadingZeros(hash) == WordBits - BitLen(BigEndian(to_bytes(hash)))

\* floor(log2(n)) and ceil(log2(n)) for n > 0.
FloorLog2(n) == BitLen(n) - 1

CeilLog2(n) == BitLen(n - 1)

AtLeastOne(size) == IF size > 1 THEN size ELSE 1

\* C17, as claimed: a hash is accepted for (size, complexity) if and only if
\* it has at least complexity - ceil(log2(max(1, size))) leading zero bits.
C17_LeadingZeroBits ==
    (op = "validate_hash_complexity" /\ pow.complexity > 0) =>
        ((result = "Ok") <=>
            (LeadingZeros(pow.hash) >=
                 pow.complexity - CeilLog2(AtLeastOne(pow.size))))

\* C17, amended: the leading zero bits bound acceptance from both sides but
\* do not decide it.  An accepted hash is zero or has at least
\* complexity - 1 + floor(log2(max(1, size))) leading zero bits; a hash with
\* at least complexity + ceil(log2(max(1, size))) leading zero bits is
\* accepted.
C17_ZeroBitsBounds ==
    (op = "validate_hash_complexity" /\ pow.complexity > 0) =>
        /\ (result = "Ok") =>
               \/ BigEndian(to_bytes(pow.hash)) = 0
               \/ LeadingZeros(pow.hash) >=
                      pow.complexity - 1 + FloorLog2(AtLeastOne(pow.size))
        /\ (LeadingZeros(pow.hash) >=
                pow.complexity + CeilLog2(AtLeastOne(pow.size))) =>
               (result = "Ok")

\* The limit of one transaction, with complexity - 1 leading zero bits, is
\* accepted.
C17_Witness ==
    /\ op = "validate_hash_complexity"
    /\ pow.complexity = ModelComplexity
    /\ pow.size = 1
    /\ LeadingZeros(pow.hash) = pow.complexity - 1
    /\ result = "Ok"

\* The nonce that mine returned meets the target of its arguments.
ReturnedNonceValid ==
    validate_hash_complexity(
        HashWord(Block_calc_hash(pow.msg, from_bytes(pow.ret[1]))),
        pow.size, pow.complexity) = "Ok"

MineWithinCap ==
    /\ (op \in {"mine", "mined"} /\ Len(pow.iterations) = 1) =>
           /\ Len(pow.tried) <= pow.iterations[1]
           /\ (op = "mined" /\ pow.ret = <<>>) =>
                  (Len(pow.tried) = pow.iterations[1])
           /\ (op = "mined" /\ pow.iterations[1] = 0) =>
                  (pow.ret = <<>> /\ pow.tried = <<>>)
    /\ (op = "mined" /\ pow.ret # <<>>) => ReturnedNonceValid

\* C18: Block::mine with iterations = Some(n) tries at most n nonces and then
\* returns None (n = 0 returns None without trying any), and every nonce it
\* returns meets the target of the size and the complexity it was given; the
\* state of the ledger has no part in it.
C18_MineBounded ==
    /\ []MineWithinCap
    /\ [][(op' \in {"mine", "mined"}) => (state' = state)]_vars
    /\ (op = "mine" /\ Len(pow.iterations) = 1) ~> (op = "mined")

\* A search over four transactions capped at MaxIterations that returns None
\* after as many nonces.
C18_Witness ==
    /\ op = "mined"
    /\ pow.iterations = <<MaxIterations>>
    /\ pow.size = Len(GenesisSplit)
    /\ Len(pow.tried) = MaxIterations
    /\ pow.ret = <<>>

(***************************************************************************)
(* Further properties of the ledger.                                       *)
(***************************************************************************)
\* C19: in every state reached from State::new() by roll_up and roll_down
\* calls owner_coins holds no empty coin set and no owner with an empty
\* order map.
C19_NoEmptyBuckets ==
    \A o \in DOMAIN state.owner_coins_map :
        /\ DOMAIN state.owner_coins_map[o] # {}
        /\ \A order \in DOMAIN state.owner_coins_map[o] :
               state.owner_coins_map[o][order] # {}

\* An owner has sent away the only coin they had: the roll-up has removed
\* the owner from owner_coins while others remain.
C19_Witness ==
    /\ op = "roll_up"
    /\ ~state.panic
    /\ Len(before) > 0
    /\ ~FailsOwnerCheck(before[Len(before)], chain[Len(chain)].transactions)
    /\ DOMAIN state.owner_coins_map # {}
    /\ \E o \in DOMAIN before[Len(before)].owner_coins_map :
           o \notin DOMAIN state.owner_coins_map

RECURSIVE SumOfSizes(_, _)
SumOfSizes(blocks, i) ==
    IF i > Len(blocks) THEN 0
    ELSE blocks[i].block.size + SumOfSizes(blocks, i + 1)

\* C20: State::new() has last = {bix 0, offset 0, hash GENESIS_HASH} and
\* empty maps; after any accepted roll-ups and matching roll-downs last.bix
\* is the number of applied blocks, last.offset the sum of block.size over
\* them and last.hash the hash of the block applied last (GENESIS_HASH when
\* there is none).
C20_LastBlockInfo ==
    /\ (op = "new") =>
           /\ state.last_block_info =
                  [bix |-> 0, offset |-> 0, hash |-> GENESIS_HASH]
           /\ DOMAIN state.coin_info_map = {}
           /\ DOMAIN state.owner_coins_map = {}
    /\ ~state.panic =>
           /\ state.last_block_info.bix = Len(chain)
           /\ state.last_block_info.offset = SumOfSizes(chain, 1)
           /\ state.last_block_info.hash =
                  IF chain = <<>> THEN GENESIS_HASH
                  ELSE chain[Len(chain)].block.hash

RECURSIVE SumOfLengths(_, _)
SumOfLengths(blocks, i) ==
    IF i > Len(blocks) THEN 0
    ELSE Len(blocks[i].transactions) + SumOfLengths(blocks, i + 1)

\* What holds of the last block info: the offset is the number of
\* transactions of the applied blocks.
LastBlockInfoByLength ==
    ~state.panic =>
        /\ state.last_block_info.bix = Len(chain)
        /\ state.last_block_info.offset = SumOfLengths(chain, 1)
        /\ state.last_block_info.hash =
               IF chain = <<>> THEN GENESIS_HASH
               ELSE chain[Len(chain)].block.hash

\* The number of transactions of the blocks i.. whose coin is `coin`.
RECURSIVE Appearances(_, _, _)
Appearances(blocks, i, coin) ==
    IF i > Len(blocks) THEN 0
    ELSE Cardinality({j \in DOMAIN blocks[i].transactions :
                         blocks[i].transactions[j].coin = coin})
         + Appearances(blocks, i + 1, coin)

\* C21: in every reachable state a coin is in coin_info if and only if it is
\* the subject of at least one transaction of the applied blocks, and its
\* counter is the number of these transactions: roll_up sets it to 1 on the
\* first appearance and adds 1 on each later one, roll_down subtracts 1 and
\* removes the coin exactly when the block rolled back is the one that minted
\* it; the counter of a stored coin is at least 1.
C21_CounterCounts ==
    ~state.panic =>
        \A c \in Coins :
            /\ HasCoin(state, c) <=> (Appearances(chain, 1, c) >= 1)
            /\ HasCoin(state, c) =>
                   /\ state.coin_info_map[c].counter = Appearances(chain, 1, c)
                   /\ state.coin_info_map[c].counter >= 1

\* The second block moves a coin that the first block minted, and a coin it
\* mints itself.
C21_Witness ==
    /\ op = "roll_up"
    /\ ~state.panic
    /\ Len(chain) = 2
    /\ \E c, d \in Coins :
           /\ get_coin_counter(state, c) = 2
           /\ HasCoin(state, d)
           /\ ~HasCoin(before[2], d)

\* The receiver as the claims state it: the address of a transfer, the
\* validator of the block for a fee, a split or a merge.
ClaimedReceiver(tr, validator) ==
    IF tr.addr \in {FeeAddr, SplitAddr, MergeAddr} THEN validator ELSE tr.addr

\* What C22 says of the i-th transaction of the block rolled up last.
GivenToReceiver(bd, st0, i) ==
    LET tr == bd.transactions[i]
        receiver == ClaimedReceiver(tr, bd.block.validator)
    IN /\ HasCoin(state, tr.coin)
       /\ state.coin_info_map[tr.coin].owner = receiver
       /\ InBucket(state, receiver, tr.coin)
       /\ ~HasCoin(st0, tr.coin) =>
              state.coin_info_map[tr.coin].order =
                  coin_order(tr.coin, calc_senders(bd.transactions, st0)[i])

\* C22: roll_up gives the coin of each transaction to tx.addr when the
\* transaction is a Transfer and to block.validator when it is a Fee, a Split
\* or a Merge: after roll_up the owner of the coin in coin_info is that
\* receiver, and a newly minted coin is recorded with the order
\* coin_order(coin, sender).
C22_ReceiverOwns ==
    (op = "roll_up" /\ ~state.panic) =>
        \A i \in DOMAIN chain[Len(chain)].transactions :
            GivenToReceiver(chain[Len(chain)], before[Len(before)], i)

\* A split of a minted coin has been rolled up: the split coin is the
\* validator's, the three coins of the answer are the sender's.
C22_Witness ==
    /\ op = "roll_up"
    /\ ~state.panic
    /\ LET bd == chain[Len(chain)]
       IN /\ Len(bd.transactions) = 4
          /\ get_type(bd.transactions[1]) = "Split"
          /\ bd.transactions[2].addr # Validator
          /\ ~HasCoin(before[Len(before)], bd.transactions[1].coin)
          /\ get_owner(state, bd.transactions[1].coin) = Validator
          /\ get_owner(state, bd.transactions[2].coin) = bd.transactions[2].addr

(***************************************************************************)
(* State::roll_up and State::roll_down called by a driver with arguments   *)
(* that fit the state or do not.  `chain` holds the blocks applied and not *)
(* rolled down, `undone` the state the last call was made on, `candidate`  *)
(* and `txs` its block and its transactions, `call` its bix.               *)
(***************************************************************************)
\* The lists the driver rolls up: a transfer of coin 1 or 2 from a key to the
\* next, signed with the live counter, and the first split.
RollLists(st) ==
    {<<Signed(st, c, NextKey(k), k)>> : c \in {1, 2}, k \in Keys}
        \cup {GenesisSplit}

\* The blocks over `transactions` on top of the state, with the offset and
\* the previous hash of the state or with others.
RollUpBlocks(st, transactions) ==
    {[MinedBlock(st, Validator, transactions) EXCEPT
         !.offset = offset, !.hash_prev = hash_prev] :
        offset \in {st.last_block_info.offset, st.last_block_info.offset + 1},
        hash_prev \in {st.last_block_info.hash, OtherHash}}

\* An applied block with its offset and its hash or with others.
RollDownBlocks(bd) ==
    {[bd.block EXCEPT !.offset = offset, !.hash = hash] :
        offset \in {bd.block.offset, bd.block.offset + 1},
        hash \in {bd.block.hash, OtherHash}}

\* roll_up(bix, block, transactions): an assertion that fails ends the call.
CallRollUp(bix, block, transactions) ==
    /\ state' = roll_up(state, bix, block, transactions)
    /\ chain' = IF state'.panic THEN chain
                ELSE Append(chain, [bix |-> bix, block |-> block,
                                    transactions |-> transactions])
    /\ undone' = state
    /\ candidate' = block
    /\ txs' = transactions
    /\ call' = [bix |-> bix]
    /\ op' = "roll_up"
    /\ rolls' = rolls + 1
    /\ UNCHANGED <<pool, before, senders, result, pow>>

\* roll_down(bix, block, transactions): an assertion that fails ends the call.
CallRollDown(bix, block, transactions) ==
    /\ state' = roll_down(state, bix, block, transactions)
    /\ chain' = IF state'.panic THEN chain
                ELSE SubSeq(chain, 1, Len(chain) - 1)
    /\ undone' = state
    /\ candidate' = block
    /\ txs' = transactions
    /\ call' = [bix |-> bix]
    /\ op' = "roll_down"
    /\ rolls' = rolls + 1
    /\ UNCHANGED <<pool, before, senders, result, pow>>

NextRoll ==
    /\ ~state.panic
    /\ rolls < MaxRolls
    /\ \/ \E bix \in 0..(state.last_block_info.bix + 2) :
              \E transactions \in RollLists(state) :
                  \E block \in RollUpBlocks(state, transactions) :
                      CallRollUp(bix, block, transactions)
       \/ \E bd \in SeqRange(chain) :
              \E bix \in {bd.bix - 1, bd.bix, bd.bix + 1} :
                  \E block \in RollDownBlocks(bd) :
                      \E transactions \in {bd.transactions,
                                            SubSeq(bd.transactions, 1,
                                                   Len(bd.transactions) - 1)} :
                          CallRollDown(bix, block, transactions)

SpecRoll == Init /\ [][NextRoll]_vars

(***************************************************************************)
(* Properties of the calls of roll_up and roll_down.                       *)
(***************************************************************************)
\* The last call was made with arguments that do not fit the state it was
\* made on.
RollUpBreach ==
    \/ call.bix # undone.last_block_info.bix + 1
    \/ candidate.offset # undone.last_block_info.offset
    \/ candidate.hash_prev # undone.last_block_info.hash

RollDownBreach ==
    \/ call.bix # undone.last_block_info.bix
    \/ candidate.offset + Len(txs) # undone.last_block_info.offset
    \/ candidate.hash # undone.last_block_info.hash

\* The call ended in a failed assertion and left the state as it was.
EndedUnmodified == state = [undone EXCEPT !.panic = TRUE]

\* C23: roll_up called with bix # last.bix + 1, block.offset # last.offset or
\* block.hash_prev # last.hash, and roll_down called with bix # last.bix,
\* block.offset + len(txs) # last.offset or block.hash # last.hash, end in a
\* failed assertion before any part of the state is modified, and return
\* nothing that a caller could take for a protocol error; so a roll_up that
\* returns has applied the block of the next bix and a roll_down that returns
\* has rolled back the block of the last bix: blocks are applied in strictly
\* increasing and rolled back in strictly decreasing bix.
C23_BreachAborts ==
    /\ (op = "roll_up" /\ RollUpBreach) => EndedUnmodified
    /\ (op = "roll_down" /\ RollDownBreach) => EndedUnmodified
    /\ (op \in {"roll_up", "roll_down"}) => (result = "none")
    /\ (op = "roll_up" /\ ~state.panic) =>
           /\ state.last_block_info.bix = call.bix
           /\ state.last_block_info.bix = undone.last_block_info.bix + 1
    /\ (op = "roll_down" /\ ~state.panic) =>
           /\ undone.last_block_info.bix = call.bix
           /\ state.last_block_info.bix = undone.last_block_info.bix - 1
           /\ state.last_block_info.bix >= 0

\* roll_down called on the second block with the bix and the offset of the
\* state and a hash that is not the state's: the call ends, nothing changed.
C23_Witness ==
    /\ op = "roll_down"
    /\ undone.last_block_info.bix = 2
    /\ call.bix = undone.last_block_info.bix
    /\ candidate.offset + Len(txs) = undone.last_block_info.offset
    /\ candidate.hash # undone.last_block_info.hash
    /\ EndedUnmodified

(***************************************************************************)
(* The signature scheme on the curve: Schema over TwistedEdwardsCurveProj. *)
(* The model keeps the code's arithmetic and runs it on a twisted Edwards  *)
(* curve of the same shape as Ed25519 with a field of 29 elements: the     *)
(* curve -x^2 + y^2 = 1 - scalar x^2 y^2 is complete (-1 is a square and   *)
(* scalar is not), its group has cofactor * order points, the generator    *)
(* has the prime order, and the sign of x is kept in the first bit above   *)
(* the bits of y.                                                          *)
(***************************************************************************)

\* TwistedEdwardsCurve::new_ed25519, scaled down; `bits` is the position of
\* the sign bit (255 in the code).
Ed25519 ==
    [modulo |-> 29, scalar |-> 3, order |-> 7, cofactor |-> 4,
     generator |-> <<2, 4>>, bits |-> 5]

\* The numbers of a word (U256 in the code): the sign bit is its top bit.
CurveWords == 0..(Pow2(Ed25519.bits + 1) - 1)

\* Prime: the field of the residues modulo m.  A value that may be absent
\* (Option) is a sequence of length at most 1.
field_add(m, a, b) == ((a % m) + (b % m)) % m

field_sub(m, a, b) == ((a % m) + m - (b % m)) % m

field_mul(m, a, b) == ((a % m) * (b % m)) % m

field_neg(m, a) == (m - (a % m)) % m

field_inv(m, a) ==
    IF a % m = 0 THEN <<>>
    ELSE <<CHOOSE x \in 1..(m - 1) : (x * (a % m)) % m = 1>>

field_div(m, a, b) ==
    IF field_inv(m, b) = <<>> THEN <<>>
    ELSE <<field_mul(m, a, field_inv(m, b)[1])>>

\* sqrtrem: a square root of a modulo m, if there is one; `pick` says which
\* of the two roots the algorithm lands on.
SquareRoots(a, m) == {x \in 0..(m - 1) : (x * x) % m = a % m}

sqrtrem(a, m, pick) ==
    IF SquareRoots(a, m) = {} THEN <<>>
    ELSE IF pick = 0
         THEN <<CHOOSE x \in SquareRoots(a, m) :
                    \A z \in SquareRoots(a, m) : x <= z>>
         ELSE <<CHOOSE x \in SquareRoots(a, m) :
                    \A z \in SquareRoots(a, m) : x >= z>>

\* TwistedEdwardsCurve::on_curve.
on_curve(a) ==
    field_sub(Ed25519.modulo, field_mul(Ed25519.modulo, a[2], a[2]),
              field_mul(Ed25519.modulo, a[1], a[1]))
        = field_sub(Ed25519.modulo, 1,
                    field_mul(Ed25519.modulo, Ed25519.scalar,
                              field_mul(Ed25519.modulo,
                                        field_mul(Ed25519.modulo, a[1], a[1]),
                                        field_mul(Ed25519.modulo, a[2], a[2]))))

\* TwistedEdwardsCurve::calc_x: x2 = (1 - y^2) / (y^2 scalar - 1), then its
\* square root; None when the division or the root fails.
calc_x2(y) ==
    field_div(Ed25519.modulo,
              field_sub(Ed25519.modulo, 1, field_mul(Ed25519.modulo, y, y)),
              field_sub(Ed25519.modulo,
                        field_mul(Ed25519.modulo,
                                  field_mul(Ed25519.modulo, y, y),
                                  Ed25519.scalar),
                        1))

calc_x(y, pick) ==
    IF calc_x2(y) = <<>> THEN <<>>
    ELSE sqrtrem(calc_x2(y)[1], Ed25519.modulo, pick)

\* TwistedEdwardsCurveProj: convert_into, convert_from (None stands for the
\* unwrap of an inverse that does not exist), zero, neg and add.
convert_into(a) == <<a[1], a[2], 1>>

convert_from(p) ==
    IF field_inv(Ed25519.modulo, p[3]) = <<>> THEN <<>>
    ELSE << <<field_mul(Ed25519.modulo, p[1],
                        field_inv(Ed25519.modulo, p[3])[1]),
              field_mul(Ed25519.modulo, p[2],
                        field_inv(Ed25519.modulo, p[3])[1])>> >>

proj_zero == convert_into(<<0, 1>>)

proj_neg(a) == <<field_neg(Ed25519.modulo, a[1]), a[2], a[3]>>

\* The values a, b, c, w, d, u, v of the code's add are passed down.
proj_add_uv(p, q, a, b, w, u, v) ==
    <<field_mul(Ed25519.modulo, field_mul(Ed25519.modulo, w, u),
                field_add(Ed25519.modulo,
                          field_mul(Ed25519.modulo, p[1], q[2]),
                          field_mul(Ed25519.modulo, p[2], q[1]))),
      field_mul(Ed25519.modulo, field_mul(Ed25519.modulo, w, v),
                field_add(Ed25519.modulo, a, b)),
      field_mul(Ed25519.modulo, u, v)>>

proj_add_cd(p, q, a, b, c, w, d) ==
    proj_add_uv(p, q, a, b, w, field_add(Ed25519.modulo, d, c),
                field_sub(Ed25519.modulo, d, c))

proj_add_ab(p, q, a, b, w) ==
    proj_add_cd(p, q, a, b,
                field_mul(Ed25519.modulo, Ed25519.scalar,
                          field_mul(Ed25519.modulo, a, b)),
                w, field_mul(Ed25519.modulo, w, w))

proj_add(p, q) ==
    proj_add_ab(p, q, field_mul(Ed25519.modulo, p[1], q[1]),
                field_mul(Ed25519.modulo, p[2], q[2]),
                field_mul(Ed25519.modulo, p[3], q[3]))

proj_sub(p, q) == proj_add(p, proj_neg(q))

\* Group::mul_scalar over the bits of k, lowest first: double and add.
RECURSIVE mul_scalar(_, _)
mul_scalar(a, k) ==
    IF k = 0 THEN proj_zero
    ELSE IF k % 2 = 1
         THEN proj_add(a, mul_scalar(proj_add(a, a), k \div 2))
         ELSE mul_scalar(proj_add(a, a), k \div 2)

\* TwistedEdwardsCurveProj::power.
power(k) == mul_scalar(convert_into(Ed25519.generator), k)

\* Schema::point_to_number: y, with the sign bit set when x is odd.
point_to_number(point) ==
    IF point[1] % 2 = 1 /\ (point[2] \div Pow2(Ed25519.bits)) % 2 = 0
    THEN point[2] + Pow2(Ed25519.bits)
    ELSE point[2]

\* Schema::point_from_number: None when calc_x fails.
sign_odd(number) == (number \div Pow2(Ed25519.bits)) % 2 = 1

point_y(number) ==
    IF sign_odd(number) THEN number - Pow2(Ed25519.bits) ELSE number

point_x(x, is_odd) ==
    IF (x % 2 = 1) # is_odd THEN field_neg(Ed25519.modulo, x) ELSE x

point_from_number(number, pick) ==
    IF calc_x(point_y(number), pick) = <<>> THEN <<>>
    ELSE << <<point_x(calc_x(point_y(number), pick)[1], sign_odd(number)),
              point_y(number)>> >>

\* Schema::get_public.
get_public(key) == point_to_number(convert_from(power(key))[1])

\* Schema::build_signature with the randomness t drawn by gen_key; <<>> when
\* the division by t has no result and the unwrap aborts the call.
sign_s_of(msg, key, t, sign_r) ==
    field_div(Ed25519.order,
              field_add(Ed25519.order, msg,
                        field_mul(Ed25519.order, key, sign_r)),
              t)

signature_of(msg, key, t, sign_r) ==
    IF sign_s_of(msg, key, t, sign_r) = <<>> THEN <<>>
    ELSE << <<sign_r, sign_s_of(msg, key, t, sign_r)[1]>> >>

schema_build_signature(msg, key, t) ==
    signature_of(msg, key, t, point_to_number(convert_from(power(t))[1]))

\* Schema::extract_public; <<>> when one of its unwraps aborts the call.
extract_point(rj, u, v) ==
    convert_from(proj_sub(mul_scalar(rj, u[1]), power(v[1])))

extract_uv(rj, u, v) ==
    IF u = <<>> \/ v = <<>> THEN <<>>
    ELSE IF extract_point(rj, u, v) = <<>> THEN <<>>
    ELSE <<point_to_number(extract_point(rj, u, v)[1])>>

extract_from(msg, signature, r) ==
    IF r = <<>> THEN <<>>
    ELSE extract_uv(convert_into(r[1]),
                    field_div(Ed25519.order, signature[2], signature[1]),
                    field_div(Ed25519.order, msg, signature[1]))

schema_extract_public(msg, signature, pick) ==
    extract_from(msg, signature, point_from_number(signature[1], pick))

\* Schema::check_signature; <<>> when extract_public aborts.
schema_check_signature(msg, public, signature, pick) ==
    IF schema_extract_public(msg, signature, pick) = <<>> THEN <<>>
    ELSE <<schema_extract_public(msg, signature, pick)[1] = public>>

(***************************************************************************)
(* Specification SpecSchema: calls of the signature scheme.  A signature   *)
(* is built for a message with a key and a randomness, and the public key  *)
(* is recovered from it or checked against it; a number is decoded into a  *)
(* point and the point is encoded again.                                   *)
(***************************************************************************)

\* What gen_key returns: a number below the order of the generator.
CurveKeys == 0..(Ed25519.order - 1)

\* The roots sqrtrem may land on.
RootPicks == {0, 1}

SchemaCall(msg, key, t, signature, number) ==
    [bix |-> 0, msg |-> msg, key |-> key, t |-> t, signature |-> signature,
     pick |-> 0, public |-> <<>>, against |-> 0, checked |-> <<>>,
     number |-> number, point |-> <<>>, encoded |-> <<>>]

\* build_signature(rng, msg, key), where rng gives t.  Every call under test
\* starts from the initial state.
BuildSignature(msg, key, t) ==
    /\ op = "new"
    /\ call' = SchemaCall(msg, key, t, schema_build_signature(msg, key, t), 0)
    /\ op' = "build_signature"
    /\ UNCHANGED <<state, chain, before, undone, rolls, txs, senders, result,
                   candidate, pow, pool>>

\* extract_public(msg, signature) on the signature just built.
ExtractPublic(pick) ==
    /\ op = "build_signature"
    /\ call.signature # <<>>
    /\ call' = [call EXCEPT
                    !.pick = pick,
                    !.public = schema_extract_public(call.msg,
                                                     call.signature[1], pick)]
    /\ op' = "extract_public"
    /\ UNCHANGED <<state, chain, before, undone, rolls, txs, senders, result,
                   candidate, pow, pool>>

\* check_signature(msg, public, signature) on the signature just built.
CheckSignature(public, pick) ==
    /\ op = "build_signature"
    /\ call.signature # <<>>
    /\ call' = [call EXCEPT
                    !.pick = pick,
                    !.against = public,
                    !.checked = schema_check_signature(call.msg, public,
                                                       call.signature[1],
                                                       pick)]
    /\ op' = "check_signature"
    /\ UNCHANGED <<state, chain, before, undone, rolls, txs, senders, result,
                   candidate, pow, pool>>

\* point_from_number(number).
PointFromNumber(number, pick) ==
    /\ op = "new"
    /\ call' = [SchemaCall(0, 0, 0, <<>>, number) EXCEPT
                    !.pick = pick,
                    !.point = point_from_number(number, pick)]
    /\ op' = "point_from_number"
    /\ UNCHANGED <<state, chain, before, undone, rolls, txs, senders, result,
                   candidate, pow, pool>>

\* point_to_number(point) on the point just decoded.
PointToNumber ==
    /\ op = "point_from_number"
    /\ call.point # <<>>
    /\ call' = [call EXCEPT !.encoded = <<point_to_number(call.point[1])>>]
    /\ op' = "point_to_number"
    /\ UNCHANGED <<state, chain, before, undone, rolls, txs, senders, result,
                   candidate, pow, pool>>

NextSchema ==
    \/ /\ op = "new"
       /\ \/ \E msg \in CurveWords :
                 \E key \in CurveKeys :
                     \E t \in CurveKeys : BuildSignature(msg, key, t)
          \/ \E number \in CurveWords :
                 \E pick \in RootPicks : PointFromNumber(number, pick)
    \/ /\ op = "build_signature"
       /\ \/ \E pick \in RootPicks : ExtractPublic(pick)
          \/ \E key \in {call.key, (call.key + 1) % Ed25519.order} :
                 \E pick \in RootPicks :
                     CheckSignature(get_public(key), pick)
    \/ PointToNumber

SpecSchema == Init /\ [][NextSchema]_vars

(***************************************************************************)
(* C24: the signature round trip.                                          *)
(***************************************************************************)

\* C24: for every private key, message and signing randomness,
\* build_signature returns a signature, extract_public of the message and
\* that signature is get_public of the key, and check_signature of the
\* message, get_public of the key and that signature is true.  The message
\* of a transaction is a word as any other, so the sender recovered with the
\* counter it was built with is get_public of its key.
C24_SignatureRoundTrip ==
    /\ (op = "build_signature") => (call.signature # <<>>)
    /\ (op = "extract_public") => (call.public = <<get_public(call.key)>>)
    /\ (op = "check_signature" /\ call.against = get_public(call.key)) =>
           (call.checked = <<TRUE>>)

(***************************************************************************)
(* C25: the round trip of the encoding of a point.                         *)
(***************************************************************************)

\* C25: for every number that point_from_number decodes into a point,
\* point_to_number of that point is the number again, the numbers with the
\* sign bit set and a decoded x of 0 included.
C25_PointRoundTrip ==
    (op = "point_to_number") => (call.encoded = <<call.number>>)

(***************************************************************************)
(* Specification SpecSenders: Transaction::calc_senders on lists whose     *)
(* transactions are signed with the counter the state has for their coin   *)
(* or with the next one, over the states a driver reaches by rolling up.   *)
(***************************************************************************)

\* A transfer of coin 1 or 2 from a key to the next, signed with the live
\* counter of the coin or with the one after it.
SenderUnits(st) ==
    {Transaction_build(c, NextKey(k), k, get_coin_counter(st, c) + d) :
        c \in {1, 2}, k \in Keys, d \in {0, 1}}

SenderLists(st) ==
    {<<tr>> : tr \in SenderUnits(st)}
        \cup {<<tr, next>> : tr \in SenderUnits(st), next \in SenderUnits(st)}

\* Transaction::calc_senders(transactions, state, schema).
CalcSenders(transactions) ==
    /\ txs' = transactions
    /\ senders' = calc_senders(transactions, state)
    /\ op' = "calc_senders"
    /\ UNCHANGED <<state, chain, before, undone, rolls, result, candidate,
                   pow, call, pool>>

NextSenders ==
    \/ /\ rolls < MaxBlocks
       /\ \E transactions \in RollLists(state) :
              CallRollUp(state.last_block_info.bix + 1,
                         MinedBlock(state, Validator, transactions),
                         transactions)
    \/ \E transactions \in SenderLists(state) : CalcSenders(transactions)

SpecSenders == Init /\ [][NextSenders]_vars

(***************************************************************************)
(* C26: the counters calc_senders recovers the senders with.               *)
(***************************************************************************)

\* The number of transactions before position i that are on the coin of
\* transaction i.
EarlierOnCoin(transactions, i) ==
    Cardinality({j \in 1..(i - 1) :
                    transactions[j].coin = transactions[i].coin})

\* The sender of transaction i under the counter of the state advanced by
\* one for each earlier transaction of the list on the same coin.
SenderAdvanced(transactions, st, i) ==
    extract_public(calc_msg(transactions[i].coin, transactions[i].addr,
                            get_coin_counter(st, transactions[i].coin)
                                + EarlierOnCoin(transactions, i)),
                   <<transactions[i].sign_r, transactions[i].sign_s>>)

\* C26: calc_senders recovers the sender of every transaction with the
\* counter the state has for its coin (0 if the coin is unseen) plus the
\* number of earlier transactions of the list on the same coin.
C26_CounterAdvance ==
    (op = "calc_senders") =>
        /\ Len(senders) = Len(txs)
        /\ \A i \in DOMAIN txs : senders[i] = SenderAdvanced(txs, state, i)

(***************************************************************************)
(* block.rs: Block::validate_coins, and pool.rs: Pool.  A group is the     *)
(* sequence of its transactions; the pool keeps the groups and, at the     *)
(* same positions, the senders they were added with.                       *)
(***************************************************************************)
\* Block::validate_coins: the coins are distinct and every transaction
\* passes validate_coin for its sender; the first failure is the answer.
FailedCoins(transactions, st, snd) ==
    {i \in 1..Len(transactions) :
        i <= Len(snd) /\
        validate_coin(transactions[i], st, snd[i]) # "Ok"}

Block_validate_coins(transactions, st, snd) ==
    IF ~check_unique(CoinsOf(transactions)) THEN "CoinNotUnique"
    ELSE IF FailedCoins(transactions, st, snd) = {} THEN "Ok"
    ELSE validate_coin(
             transactions[CHOOSE i \in FailedCoins(transactions, st, snd) :
                 \A j \in FailedCoins(transactions, st, snd) : i <= j],
             st,
             snd[CHOOSE i \in FailedCoins(transactions, st, snd) :
                 \A j \in FailedCoins(transactions, st, snd) : i <= j])

\* vec![sender; group.len()].
GroupSenders(group, sender) == [i \in 1..Len(group) |-> sender]

\* Pool::add_group without the coin validation.
add_group_Unchecked(p, group, st, sender) ==
    [groups |-> Append(p.groups, group), senders |-> Append(p.senders, sender)]

\* Pool::add_group: the pool after the call; the group is at its end exactly
\* when the call returns true.
add_group(p, group, st, sender) ==
    IF Block_validate_coins(group, st, GroupSenders(group, sender)) = "Ok"
    THEN [groups |-> Append(p.groups, group),
          senders |-> Append(p.senders, sender)]
    ELSE p

\* The width of an order (u64 in the code), scaled down.
OrderSpan == Pow2(NBytes * ByteBits)

\* The coin Vec::pop takes from a series: the series is the set of the
\* validator's coins of one order in the order a HashSet iterates, which is
\* any; `last` says which end of the numbers comes last.
PoppedCoin(series, last) ==
    IF last THEN CHOOSE c \in series : \A d \in series : d <= c
    ELSE CHOOSE c \in series : \A d \in series : c <= d

\* Pool::get_validator_coin: coins are popped from the series of the order
\* until one is not ignored; the coin, if any, and the resource left.
RECURSIVE get_validator_coin(_, _, _, _)

validator_coin_popped(order, resource, ignore_coins, last, coin) ==
    IF coin \notin ignore_coins
    THEN [coin |-> <<coin>>,
          resource |-> MapPut(resource, order, resource[order] \ {coin})]
    ELSE get_validator_coin(order,
                            MapPut(resource, order, resource[order] \ {coin}),
                            ignore_coins, last)

get_validator_coin(order, resource, ignore_coins, last) ==
    IF order \notin DOMAIN resource THEN [coin |-> <<>>, resource |-> resource]
    ELSE IF resource[order] = {} THEN [coin |-> <<>>, resource |-> resource]
    ELSE validator_coin_popped(order, resource, ignore_coins, last,
                               PoppedCoin(resource[order], last))

\* The extension Pool::prepare builds for a group over the orders `orders`:
\* one transfer to the sender for each order, on a coin popped from the
\* validator's resource and signed with the validator key and the counter
\* the state has for the coin.  The first order without a coin ends it with
\* None; what was popped and marked as seen before stays so.
RECURSIVE ext_trs_from(_, _, _, _, _, _, _)

\* ext_trs_got signing with the counter 0 whatever the state has.
ext_trs_got_ZeroCounter(orders, i, acc, st, sender, validator_key, last, got) ==
    IF got.coin = <<>>
    THEN [acc EXCEPT !.some = FALSE, !.resource = got.resource]
    ELSE ext_trs_from(orders, i + 1,
                      [acc EXCEPT
                          !.resource = got.resource,
                          !.coin_set = acc.coin_set \cup {got.coin[1]},
                          !.ext = Append(acc.ext,
                                         Transaction_build(
                                             got.coin[1], sender,
                                             validator_key,
                                             0))],
                      st, sender, validator_key, last)

ext_trs_got(orders, i, acc, st, sender, validator_key, last, got) ==
    IF got.coin = <<>>
    THEN [acc EXCEPT !.some = FALSE, !.resource = got.resource]
    ELSE ext_trs_from(orders, i + 1,
                      [acc EXCEPT
                          !.resource = got.resource,
                          !.coin_set = acc.coin_set \cup {got.coin[1]},
                          !.ext = Append(acc.ext,
                                         Transaction_build(
                                             got.coin[1], sender,
                                             validator_key,
                                             get_coin_counter(st,
                                                              got.coin[1])))],
                      st, sender, validator_key, last)

ext_trs_from(orders, i, acc, st, sender, validator_key, last) ==
    IF i > Len(orders) THEN acc
    ELSE ext_trs_got(orders, i, acc, st, sender, validator_key, last,
                     get_validator_coin(orders[i], acc.resource, acc.coin_set,
                                        last))

\* The orders of the coins asked of the validator for a split of `order`:
\* order - 1, order - 2, order - 2 in the arithmetic of the width.
SplitOrders(order) ==
    <<(order + OrderSpan - 1) % OrderSpan,
      (order + OrderSpan - 2) % OrderSpan,
      (order + OrderSpan - 2) % OrderSpan>>

\* prepare_extend with the extension put before its group.
prepare_extend_ExtFirst(acc, group, got) ==
    [transactions |-> IF got.some THEN acc.transactions \o got.ext \o group
                      ELSE acc.transactions,
     resource |-> got.resource, coin_set |-> got.coin_set, some |-> TRUE,
     ext |-> <<>>, panic |-> FALSE]

\* Extend transactions if ext was added.
prepare_extend(acc, group, got) ==
    [transactions |-> IF got.some THEN acc.transactions \o group \o got.ext
                      ELSE acc.transactions,
     resource |-> got.resource, coin_set |-> got.coin_set, some |-> TRUE,
     ext |-> <<>>, panic |-> FALSE]

\* One turn of the loop of Pool::prepare on a group that has no seen coin,
\* with the coins of the group marked as seen in `acc`.  A subtraction that
\* goes below 0 aborts the call in a build that checks overflow (`wrap`
\* false) and wraps in one that does not.
prepare_ext(acc, group, sender, st, validator_key, last, wrap, order) ==
    CASE Group_get_type(group) = "Transfer" -> prepare_extend(acc, group, acc)
      [] Group_get_type(group) = "Merge" ->
             prepare_extend(acc, group,
                            ext_trs_from(<<order>>, 1, acc, st, sender,
                                         validator_key, last))
      [] Group_get_type(group) = "Split" ->
             IF order < 2 /\ ~wrap THEN [acc EXCEPT !.panic = TRUE]
             ELSE prepare_extend(acc, group,
                                 ext_trs_from(SplitOrders(order), 1, acc, st,
                                              sender, validator_key, last))
      [] OTHER -> [acc EXCEPT !.panic = TRUE]

\* prepare_group without the test for seen coins.
prepare_group_NoSkip(acc, group, sender, st, validator_key, last, wrap) ==
    IF acc.panic THEN acc
    ELSE prepare_ext([acc EXCEPT
                         !.coin_set = acc.coin_set \cup
                                          {group[i].coin : i \in DOMAIN group}],
                     group, sender, st, validator_key, last, wrap,
                     Group_get_order(group, st, GroupSenders(group, sender)))

prepare_group(acc, group, sender, st, validator_key, last, wrap) ==
    IF acc.panic THEN acc
    ELSE IF \E i \in DOMAIN group : group[i].coin \in acc.coin_set THEN acc
    ELSE prepare_ext([acc EXCEPT
                         !.coin_set = acc.coin_set \cup
                                          {group[i].coin : i \in DOMAIN group}],
                     group, sender, st, validator_key, last, wrap,
                     Group_get_order(group, st, GroupSenders(group, sender)))

RECURSIVE prepare_loop(_, _, _, _, _, _, _, _)
prepare_loop(p, i, n, acc, st, validator_key, last, wrap) ==
    IF i > n THEN acc
    ELSE prepare_loop(p, i + 1, n,
                      prepare_group(acc, p.groups[i], p.senders[i], st,
                                    validator_key, last, wrap),
                      st, validator_key, last, wrap)

\* The validator's coins by order, as the state has them.
validator_resource(st, validator) ==
    IF validator \in DOMAIN st.owner_coins_map
    THEN st.owner_coins_map[validator] ELSE EmptyMap

\* The number of groups Pool::prepare looks at: groups_max is None (<<>>) or
\* Some(n) (<<n>>).
GroupsTaken(p, groups_max) ==
    IF groups_max = <<>> THEN Len(p.groups)
    ELSE IF groups_max[1] < Len(p.groups) THEN groups_max[1]
    ELSE Len(p.groups)

\* Pool::prepare(rng, schema, state, validator_key, groups_max): the
\* transactions returned, or panic.  The public key of a key is the key in
\* the abstract schema.
prepare(p, st, validator_key, groups_max, last, wrap) ==
    prepare_loop(p, 1, GroupsTaken(p, groups_max),
                 [transactions |-> <<>>,
                  resource |-> validator_resource(st, validator_key),
                  coin_set |-> {}, some |-> TRUE, ext |-> <<>>,
                  panic |-> FALSE],
                 st, validator_key, last, wrap)

\* Pool::update_groups: the groups that pass validate_coins for their stored
\* sender, in their order.
pool_push(keep, group, sender, rest) ==
    IF keep THEN [groups |-> <<group>> \o rest.groups,
                  senders |-> <<sender>> \o rest.senders]
    ELSE rest

RECURSIVE update_groups_from(_, _, _)
update_groups_from(p, st, i) ==
    IF i > Len(p.groups) \/ i > Len(p.senders) THEN Pool_new
    ELSE pool_push(Block_validate_coins(p.groups[i], st,
                                        GroupSenders(p.groups[i],
                                                     p.senders[i])) = "Ok",
                   p.groups[i], p.senders[i],
                   update_groups_from(p, st, i + 1))

\* update_groups that discards nothing.
update_groups_KeepAll(p, st) == p

update_groups(p, st) == update_groups_from(p, st, 1)

(***************************************************************************)
(* Specification SpecPool: a validator's pool beside the ledger.  Clients  *)
(* hand in groups built against the state, the validator prepares the      *)
(* transactions of its next block, blocks are rolled up on the state, and  *)
(* the pool is brought up to date with the state.                          *)
(***************************************************************************)

\* The most groups the pool holds.
MaxPool == MaxBlocks

\* The groups clients build: a transfer of coin 1 to the next key or to the
\* sender itself, a transfer of coin 2 with coin 3 as its fee, a split of
\* coin 1 or of the last coin, and a merge of coins 1, 2 and 3.
PoolUnits(st, k) ==
    {<<Signed(st, 1, NextKey(k), k)>>,
     <<Signed(st, 1, k, k)>>,
     <<Signed(st, 2, NextKey(k), k), Signed(st, 3, FeeAddr, k)>>,
     <<Signed(st, 1, SplitAddr, k)>>,
     <<Signed(st, NCoins, SplitAddr, k)>>,
     <<Signed(st, 1, MergeAddr, k), Signed(st, 2, MergeAddr, k),
       Signed(st, 3, MergeAddr, k)>>}

\* The arguments of a call on the pool, and the pool it was made on.
PoolCall(p, group, sender, groups_max, wrap) ==
    [bix |-> 0, pool |-> p, group |-> group, sender |-> sender,
     groups_max |-> groups_max, wrap |-> wrap]

\* pool.add_group(group, state, sender), for a group that Group::new built
\* against the state with that sender.
AddGroup(group, sender) ==
    /\ Group_new(group, state, GroupSenders(group, sender)) = "Ok"
    /\ pool' = add_group(pool, group, state, sender)
    /\ result' = IF pool' = pool THEN "false" ELSE "true"
    /\ call' = PoolCall(pool, group, sender, <<>>, FALSE)
    /\ op' = "add_group"
    /\ UNCHANGED <<state, chain, before, undone, rolls, txs, senders,
                   candidate, pow>>

\* pool.prepare(rng, schema, state, validator_key, groups_max): `senders`
\* takes the senders of the returned list under the state.
Prepare(groups_max, last, wrap, prepared) ==
    /\ txs' = prepared.transactions
    /\ senders' = calc_senders(prepared.transactions, state)
    /\ result' = IF prepared.panic THEN "Panic" ELSE "Ok"
    /\ call' = PoolCall(pool, <<>>, Validator, groups_max, wrap)
    /\ op' = "prepare"
    /\ UNCHANGED <<state, chain, before, undone, rolls, candidate, pow, pool>>

\* pool.update_groups(state).
UpdateGroups ==
    /\ pool' = update_groups(pool, state)
    /\ call' = PoolCall(pool, <<>>, Validator, <<>>, FALSE)
    /\ result' = "none"
    /\ op' = "update_groups"
    /\ UNCHANGED <<state, chain, before, undone, rolls, txs, senders,
                   candidate, pow>>

\* The lists of the blocks rolled up beside the pool: the first split, and
\* what the pool prepared.
PoolBlockLists ==
    {GenesisSplit} \cup
        (IF op = "prepare" /\ result = "Ok" /\ txs # <<>> THEN {txs} ELSE {})

\* A block over `transactions` that Block::validate accepts is rolled up.
PoolBlock(transactions) ==
    /\ BlockVerdict(state, Validator, transactions) = "Ok"
    /\ Block_validate_coins(transactions, state,
                            calc_senders(transactions, state)) = "Ok"
    /\ CallRollUp(state.last_block_info.bix + 1,
                  MinedBlock(state, Validator, transactions), transactions)



(***************************************************************************)
(* C27, C28: what Pool::prepare returns.                                   *)
(***************************************************************************)

\* C27: no coin occurs in more than one transaction of a list that
\* Pool::prepare returns: a group that shares a coin with a group looked at
\* before it or with a validator coin already used is left out, and a
\* validator coin that is in the output already is not chosen again.
C27_PreparedCoinsDistinct ==
    (op = "prepare" /\ result = "Ok") => check_unique(CoinsOf(txs))

\* A preparation over two pending groups on one coin returned the first.
C27_Witness ==
    /\ op = "prepare"
    /\ result = "Ok"
    /\ Len(pool.groups) = 2
    /\ call.groups_max = <<>>
    /\ \E i \in DOMAIN pool.groups[1] :
           \E j \in DOMAIN pool.groups[2] :
               pool.groups[1][i].coin = pool.groups[2][j].coin
    /\ Len(txs) >= Len(pool.groups[1])
    /\ SubSeq(txs, 1, Len(pool.groups[1])) = pool.groups[1]

\* Every pending group's stored sender is the sender its signatures give
\* under the counters of the state, and its coins pass validate_coin for it.
PendingFresh(p, st) ==
    \A i \in DOMAIN p.groups :
        /\ calc_senders(p.groups[i], st) =
               GroupSenders(p.groups[i], p.senders[i])
        /\ \A j \in DOMAIN p.groups[i] :
               validate_coin(p.groups[i][j], st, p.senders[i]) = "Ok"

\* The items of the prepared list as Block::validate_transactions groups it.
PreparedItems == group_transactions(txs, state, senders, 0)

\* The extension of an item answers its group: it has the size the type of
\* the group asks for, the validator signed it with the live counters, it
\* pays the sender of the group, and its order is the order of the group.
ExtAnswers(item) ==
    /\ Len(item.ext) = Group_ext_size(item.group)
    /\ \A j \in DOMAIN item.ext :
           /\ senders[item.offset + Len(item.group) + j] = Validator
           /\ item.ext[j] =
                  Signed(state, item.ext[j].coin, item.ext[j].addr, Validator)
           /\ item.ext[j].addr = senders[item.offset + 1]
    /\ (item.ext # <<>>) =>
           Ext_get_order(item.ext, state,
                         SubSeq(senders, item.offset + Len(item.group) + 1,
                                item.offset + Len(item.group)
                                    + Len(item.ext)))
               = Group_get_order(item.group, state,
                                 SubSeq(senders, item.offset + 1,
                                        item.offset + Len(item.group)))

C29_UpdatedSendersRecovered ==
    (op = "update_groups") =>
        \A i \in DOMAIN pool.groups :
            calc_senders(pool.groups[i], state) =
                GroupSenders(pool.groups[i], pool.senders[i])

\* The stored sender owns the coin, or the coin is unseen and valid for it.
CoinStands(st, tr, sender) ==
    IF HasCoin(st, tr.coin) THEN get_owner(st, tr.coin) = sender
    ELSE coin_validate(tr.coin, sender) = "Ok"

\* The positions of the pending groups whose coins are distinct and stand.
Standing(p, st) ==
    {i \in DOMAIN p.groups :
        /\ \A a \in DOMAIN p.groups[i] :
               \A b \in DOMAIN p.groups[i] :
                   (a # b) => (p.groups[i][a].coin # p.groups[i][b].coin)
        /\ \A a \in DOMAIN p.groups[i] :
               CoinStands(st, p.groups[i][a], p.senders[i])}

\* The j-th position of a set of positions.
NthOf(positions, j) ==
    CHOOSE x \in positions : Cardinality({y \in positions : y < x}) = j - 1

\* C30: update_groups keeps exactly the pending groups whose coins are
\* pairwise distinct and each stand for the stored sender in the state, in
\* their order and with their senders; the two lists have one length.
C30_UpdateKeepsStanding ==
    (op = "update_groups") =>
        /\ Len(pool.groups) = Cardinality(Standing(call.pool, state))
        /\ Len(pool.senders) = Len(pool.groups)
        /\ \A j \in DOMAIN pool.groups :
               /\ pool.groups[j] =
                      call.pool.groups[NthOf(Standing(call.pool, state), j)]
               /\ pool.senders[j] =
                      call.pool.senders[NthOf(Standing(call.pool, state), j)]

\* Of two pending groups the first was discarded and the second kept.
C30_Witness ==
    /\ op = "update_groups"
    /\ Len(call.pool.groups) = 2
    /\ Len(pool.groups) = 1
    /\ pool.groups[1] = call.pool.groups[2]
    /\ pool.senders[1] = call.pool.senders[2]
    /\ call.pool.groups[1] # call.pool.groups[2]

(***************************************************************************)
(* pool.rs: Pool::roll_up, Pool::roll_down and Pool::merge.                *)
(***************************************************************************)
\* Pool::roll_up that keeps the groups on committed coins.
RECURSIVE Pool_roll_up_KeepCommitted(_, _, _, _)
Pool_roll_up_KeepCommitted(p, transactions, st, i) ==
    IF i > Len(p.groups) \/ i > Len(p.senders) THEN Pool_new
    ELSE pool_push(Block_validate_coins(p.groups[i], st,
                                        GroupSenders(p.groups[i],
                                                     p.senders[i])) = "Ok",
                   p.groups[i], p.senders[i],
                   Pool_roll_up_KeepCommitted(p, transactions, st, i + 1))

\* Pool::roll_up(transactions, state) from the i-th entry on: an entry stays
\* when none of its coins is a coin of `transactions` and validate_coins
\* passes for its stored sender.
RECURSIVE Pool_roll_up(_, _, _, _)
Pool_roll_up(p, transactions, st, i) ==
    IF i > Len(p.groups) \/ i > Len(p.senders) THEN Pool_new
    ELSE pool_push((\A j \in DOMAIN p.groups[i] :
                        \A t \in DOMAIN transactions :
                            transactions[t].coin # p.groups[i][j].coin)
                       /\ Block_validate_coins(p.groups[i], st,
                                               GroupSenders(p.groups[i],
                                                            p.senders[i]))
                              = "Ok",
                   p.groups[i], p.senders[i],
                   Pool_roll_up(p, transactions, st, i + 1))

\* Pool::merge(other, state) from the i-th entry of `other` on.
RECURSIVE Pool_merge(_, _, _, _)
Pool_merge(p, other, st, i) ==
    IF i > Len(other.groups) \/ i > Len(other.senders) THEN p
    ELSE Pool_merge(add_group(p, other.groups[i], st, other.senders[i]),
                    other, st, i + 1)

\* Pool::roll_down(transactions, state, senders) from the i-th item of
\* group_transactions on: the group of the item is added with the sender at
\* its offset; <<>> stands for the abort on an offset outside the senders.
RECURSIVE Pool_roll_down(_, _, _, _, _)
Pool_roll_down(p, items, st, snd, i) ==
    IF i > Len(items) THEN <<p>>
    ELSE IF items[i].offset + 1 > Len(snd) THEN <<>>
    ELSE Pool_roll_down(add_group(p, items[i].group, st,
                                  snd[items[i].offset + 1]),
                        items, st, snd, i + 1)

\* pool.roll_up(transactions, state) for the block just rolled up.
PoolRollUp ==
    /\ pool' = Pool_roll_up(pool, txs, state, 1)
    /\ call' = PoolCall(pool, <<>>, Validator, <<>>, FALSE)
    /\ result' = "none"
    /\ op' = "pool_roll_up"
    /\ UNCHANGED <<state, chain, before, undone, rolls, txs, senders,
                   candidate, pow>>

\* The pools merged in: one or two entries, each a group a client built and
\* the sender it gave, the second with a sender that did not sign it.
OtherEntries(st) ==
    {<<<<Signed(st, 1, NextKey(Validator), Validator)>>, Validator>>,
     <<<<Signed(st, 2, Validator, NextKey(Validator))>>, Validator>>,
     <<<<Signed(st, NCoins, SplitAddr, NextKey(Validator))>>,
       NextKey(Validator)>>}

OtherPools(st) ==
    {[groups |-> <<e[1]>>, senders |-> <<e[2]>>] : e \in OtherEntries(st)}
        \cup {[groups |-> <<e[1], f[1]>>, senders |-> <<e[2], f[2]>>] :
                 e \in OtherEntries(st), f \in OtherEntries(st)}

\* pool.merge(other, state); `call.other` keeps the pool merged in.
PoolMerge(other) ==
    /\ pool' = Pool_merge(pool, other, state, 1)
    /\ call' = [PoolCall(pool, <<>>, Validator, <<>>, FALSE) EXCEPT
                    !.group = other.groups, !.sender = 0]
    /\ senders' = other.senders
    /\ txs' = <<>>
    /\ result' = "none"
    /\ op' = "merge"
    /\ UNCHANGED <<state, chain, before, undone, rolls, candidate, pow>>

NextPool ==
    \/ /\ Len(pool.groups) < MaxPool
       /\ op \notin {"merge", "pool_roll_up"}
       /\ \E k \in {Validator, NextKey(Validator)} :
              \E group \in PoolUnits(state, k) :
                  \E sender \in {k, NextKey(k)} : AddGroup(group, sender)
    \/ /\ op \in {"add_group", "roll_up", "update_groups"}
       /\ pool.groups # <<>>
       /\ \E groups_max \in {<<>>, <<1>>} :
              \E last \in BOOLEAN :
                  \E wrap \in BOOLEAN :
                      \E prepared \in {prepare(pool, state, Validator,
                                               groups_max, last, wrap)} :
                          Prepare(groups_max, last, wrap, prepared)
    \/ /\ op \in {"add_group", "roll_up"}
       /\ pool.groups # <<>>
       /\ UpdateGroups
    \/ /\ Len(chain) < MaxBlocks
       /\ op \notin {"merge", "pool_roll_up"}
       /\ \E transactions \in PoolBlockLists : PoolBlock(transactions)
    \/ /\ op = "roll_up"
       /\ pool.groups # <<>>
       /\ PoolRollUp
    \/ /\ op \in {"add_group", "roll_up"}
       /\ Len(pool.groups) < MaxPool
       /\ \E other \in OtherPools(state) : PoolMerge(other)

SpecPool == Init /\ [][NextPool]_vars

(***************************************************************************)
(* C31: what Pool::roll_up keeps.                                          *)
(***************************************************************************)

\* The positions of the pending groups that stand in the state and have no
\* coin of `transactions`.
Survivors(p, transactions, st) ==
    {i \in Standing(p, st) :
        \A j \in DOMAIN p.groups[i] :
            p.groups[i][j].coin \notin SeqRange(CoinsOf(transactions))}

\* The lists a preparation of the pool may return on the state.
Preparations(p, st) ==
    {prepare(p, st, Validator, <<>>, last, wrap).transactions :
        last \in BOOLEAN, wrap \in BOOLEAN}

\* C31: after Pool::roll_up(txs, state) no pending group has a coin of txs,
\* every pending group passes the coin validation against the state, the
\* groups left are groups that were pending, in their order and with their
\* senders, and no preparation returns a transaction of the block.
C31_RollUpDropsCommitted ==
    (op = "pool_roll_up") =>
        /\ \A i \in DOMAIN pool.groups :
               /\ \A j \in DOMAIN pool.groups[i] :
                      pool.groups[i][j].coin \notin SeqRange(CoinsOf(txs))
               /\ Block_validate_coins(pool.groups[i], state,
                                       GroupSenders(pool.groups[i],
                                                    pool.senders[i])) = "Ok"
        /\ Len(pool.groups) = Cardinality(Survivors(call.pool, txs, state))
        /\ Len(pool.senders) = Len(pool.groups)
        /\ \A j \in DOMAIN pool.groups :
               /\ pool.groups[j] =
                      call.pool.groups[NthOf(Survivors(call.pool, txs, state),
                                             j)]
               /\ pool.senders[j] =
                      call.pool.senders[NthOf(Survivors(call.pool, txs,
                                                        state), j)]
        /\ \A prepared \in Preparations(pool, state) :
               SeqRange(prepared) \cap SeqRange(txs) = {}

\* Of two pending groups the block committed the first; the second stays.
C31_Witness ==
    /\ op = "pool_roll_up"
    /\ Len(call.pool.groups) = 2
    /\ SubSeq(txs, 1, Len(call.pool.groups[1])) = call.pool.groups[1]
    /\ pool.groups = <<call.pool.groups[2]>>
    /\ pool.senders = <<call.pool.senders[2]>>

(***************************************************************************)
(* C33: Pool::add_group and Pool::merge.                                   *)
(***************************************************************************)

\* The coins of the group are distinct and each stands for the sender.
GroupStands(group, st, sender) ==
    /\ \A a \in DOMAIN group :
           \A b \in DOMAIN group : (a # b) => (group[a].coin # group[b].coin)
    /\ \A a \in DOMAIN group : CoinStands(st, group[a], sender)

\* The pool merged in, as the call was given it.
MergedIn == [groups |-> call.group, senders |-> senders]

\* C33: add_group appends the group and the sender at the end of the pool
\* and returns true exactly when the coins of the group are distinct and
\* each passes validate_coin for that sender in the state; otherwise it
\* returns false and the pool is as before.  merge appends, in their order,
\* the entries of the other pool for which add_group returns true.
C33_AddGroupMerge ==
    /\ (op = "add_group") =>
           /\ (result = "true") <=>
                  GroupStands(call.group, state, call.sender)
           /\ (result = "true") =>
                  /\ pool.groups = Append(call.pool.groups, call.group)
                  /\ pool.senders = Append(call.pool.senders, call.sender)
           /\ (result = "false") => (pool = call.pool)
    /\ (op = "merge") =>
           /\ Len(pool.groups) =
                  Len(call.pool.groups)
                      + Cardinality(Standing(MergedIn, state))
           /\ Len(pool.senders) = Len(pool.groups)
           /\ SubSeq(pool.groups, 1, Len(call.pool.groups)) =
                  call.pool.groups
           /\ SubSeq(pool.senders, 1, Len(call.pool.senders)) =
                  call.pool.senders
           /\ \A j \in 1..Cardinality(Standing(MergedIn, state)) :
                  /\ pool.groups[Len(call.pool.groups) + j] =
                         MergedIn.groups[NthOf(Standing(MergedIn, state), j)]
                  /\ pool.senders[Len(call.pool.senders) + j] =
                         MergedIn.senders[NthOf(Standing(MergedIn, state), j)]

\* A merge took the second entry of the other pool and not the first.
C33_Witness ==
    /\ op = "merge"
    /\ call.pool.groups # <<>>
    /\ Len(MergedIn.groups) = 2
    /\ Standing(MergedIn, state) = {2}
    /\ pool.groups = Append(call.pool.groups, MergedIn.groups[2])

(***************************************************************************)
(* C34: the order of the output of Pool::prepare.                          *)
(***************************************************************************)

\* The transactions of `out` from `pos` on are at most n pending groups of
\* the pool `p` taken at increasing positions from `g` on, each followed at
\* once by as many transfers as its type asks for, signed by the validator on
\* a coin of the validator and paying the sender stored with the group.
RECURSIVE EmitsUpTo(_, _, _, _, _, _)
EmitsUpTo(out, pos, p, g, st, n) ==
    IF pos > Len(out) THEN TRUE
    ELSE /\ n > 0
         /\ \E i \in g..Len(p.groups) :
                /\ pos + Len(p.groups[i]) + Group_ext_size(p.groups[i]) - 1
                       <= Len(out)
                /\ SubSeq(out, pos, pos + Len(p.groups[i]) - 1) = p.groups[i]
                /\ \A j \in 1..Group_ext_size(p.groups[i]) :
                       /\ out[pos + Len(p.groups[i]) + j - 1] =
                              Signed(st,
                                     out[pos + Len(p.groups[i]) + j - 1].coin,
                                     p.senders[i], Validator)
                       /\ get_owner(st,
                                    out[pos + Len(p.groups[i]) + j - 1].coin)
                              = Validator
                /\ EmitsUpTo(out,
                             pos + Len(p.groups[i])
                                 + Group_ext_size(p.groups[i]),
                             p, i + 1, st, n - 1)

EmitsInOrder(out, pos, p, g, st) ==
    EmitsUpTo(out, pos, p, g, st, Len(p.groups))

\* C34: the list Pool::prepare returns is made of pending groups in the
\* order they have in the pool, each immediately followed by its own
\* extension, and the call leaves the pool and the state as they were.
C34_PreparedInOrder ==
    [][(op' = "prepare" /\ op # "prepare" /\ result' = "Ok") =>
           /\ pool' = pool
           /\ state' = state
           /\ EmitsInOrder(txs', 1, pool, 1, state)]_vars

\* Two different groups were emitted, in the order they have in the pool.
C34_Witness ==
    /\ op = "prepare"
    /\ result = "Ok"
    /\ Len(pool.groups) = 2
    /\ pool.groups[1] # pool.groups[2]
    /\ txs = pool.groups[1] \o pool.groups[2]

(***************************************************************************)
(* C35: groups_max.                                                        *)
(***************************************************************************)

\* The pending groups that a preparation of the state emits when they are
\* alone in the pool, whatever the order the validator's coins are popped in.
CanBeEmitted(p, st, wrap) ==
    {i \in DOMAIN p.groups :
        \A last \in BOOLEAN :
            /\ ~prepare([groups |-> <<p.groups[i]>>,
                         senders |-> <<p.senders[i]>>],
                        st, Validator, <<>>, last, wrap).panic
            /\ prepare([groups |-> <<p.groups[i]>>,
                        senders |-> <<p.senders[i]>>],
                       st, Validator, <<>>, last, wrap).transactions # <<>>}

\* C35 as stated: with groups_max = n the output has at most n groups, and
\* it has n groups whenever the pool holds at least n groups that can be
\* emitted, skipped groups not counting toward n.
C35_SkippedNotCounted ==
    (op = "prepare" /\ result = "Ok" /\ call.groups_max # <<>>) =>
        /\ EmitsUpTo(txs, 1, pool, 1, state, call.groups_max[1])
        /\ (Cardinality(CanBeEmitted(pool, state, call.wrap))
                >= call.groups_max[1]) =>
               ~EmitsUpTo(txs, 1, pool, 1, state, call.groups_max[1] - 1)

(***************************************************************************)
(* C36: what a preparation reserves.                                       *)
(***************************************************************************)

\* The pool without its i-th entry.
PoolWithout(p, i) ==
    [groups |-> SubSeq(p.groups, 1, i - 1)
                    \o SubSeq(p.groups, i + 1, Len(p.groups)),
     senders |-> SubSeq(p.senders, 1, i - 1)
                     \o SubSeq(p.senders, i + 1, Len(p.senders))]

\* C36: only the coins that end up in the output are reserved during
\* Pool::prepare, so a group that is skipped leaves no trace: the output is
\* the output of a preparation of the pool without that group, when that
\* preparation returns.
C36_SkippedLeavesNoTrace ==
    (op = "prepare" /\ result = "Ok" /\ call.groups_max = <<>>) =>
        \A i \in DOMAIN pool.groups :
            EmitsInOrder(txs, 1, PoolWithout(pool, i), 1, state) =>
                \E last \in BOOLEAN :
                    \/ prepare(PoolWithout(pool, i), state, Validator, <<>>,
                               last, call.wrap).panic
                    \/ prepare(PoolWithout(pool, i), state, Validator, <<>>,
                               last, call.wrap).transactions = txs

(***************************************************************************)
(* C37: a pending Split of a coin of order 0 or 1.                         *)
(***************************************************************************)

\* The pending Split groups whose order is below 2.
LowSplits(p, st) ==
    {i \in DOMAIN p.groups :
        /\ Group_get_type(p.groups[i]) = "Split"
        /\ Group_get_order(p.groups[i], st,
                           GroupSenders(p.groups[i], p.senders[i])) < 2}

\* C37: Pool::prepare returns when a Split of a coin of order 0 or 1 is
\* pending, and the output has no such group.
C37_LowSplitSkipped ==
    (op = "prepare" /\ LowSplits(pool, state) # {}) =>
        /\ result = "Ok"
        /\ \A i \in LowSplits(pool, state) :
               EmitsInOrder(txs, 1, PoolWithout(pool, i), 1, state)

(***************************************************************************)
(* C38: Block::validate and the size field.                                *)
(***************************************************************************)

\* C38: a block that Block::validate accepted has the number of its
\* transactions as its size, so the info of the stored block (its offset
\* plus its size) has the offset the state holds once the block is rolled
\* up.
C38_SizeValidated ==
    (op = "roll_up" /\ chain # <<>>) =>
        /\ chain[Len(chain)].block.size = Len(chain[Len(chain)].transactions)
        /\ chain[Len(chain)].block.offset + chain[Len(chain)].block.size
               = state.last_block_info.offset

(***************************************************************************)
(* C39: rolling the state down at genesis.                                 *)
(***************************************************************************)

\* U256::from(0), the hash_prev of the genesis block.
ZeroHash == <<"zero">>

\* BlockData::genesis().
BlockData_genesis ==
    [bix |-> 0,
     block |-> Block_new(0, 0, ZeroHash, 0, 0, GENESIS_HASH),
     transactions |-> <<>>]

\* The numbers of a block index: u64 in the program, the width of the model
\* here.
BixSpan == Pow2(NBytes * ByteBits)

\* State::roll_down in the arithmetic of the width: the three assertions,
\* then `last_block_info.bix -= 1`, which at 0 aborts the call in a build
\* that checks overflow (`wrap` false) and wraps in one that does not.
State_roll_down(st, bix, block, transactions, wrap) ==
    IF (bix # st.last_block_info.bix) \/
       (block.offset + Len(transactions) # st.last_block_info.offset) \/
       (block.hash # st.last_block_info.hash)
    THEN Panicked(st)
    ELSE IF st.last_block_info.bix = 0
    THEN IF wrap
         THEN [roll_down(st, bix, block, transactions) EXCEPT
                  !.last_block_info.bix = BixSpan - 1]
         ELSE Panicked(st)
    ELSE roll_down(st, bix, block, transactions)

\* A block mined on the last block is rolled up.
GenesisRollUp(validator, transactions) ==
    /\ ~state.panic
    /\ rolls < MaxRolls
    /\ state.last_block_info.bix < MaxBlocks
    /\ CallRollUp(state.last_block_info.bix + 1,
                  MinedBlock(state, validator, transactions), transactions)

\* The last block of the chain is rolled down.
GenesisRollDownLast ==
    /\ ~state.panic
    /\ rolls < MaxRolls
    /\ state.last_block_info.bix \in DOMAIN chain
    /\ CallRollDown(chain[Len(chain)].bix, chain[Len(chain)].block,
                    chain[Len(chain)].transactions)

\* roll_down(0, genesis block, no transactions).
RollDownGenesis(wrap) ==
    /\ ~state.panic
    /\ op # "roll_down_genesis"
    /\ state' = State_roll_down(state, BlockData_genesis.bix,
                                BlockData_genesis.block,
                                BlockData_genesis.transactions, wrap)
    /\ undone' = state
    /\ candidate' = BlockData_genesis.block
    /\ txs' = BlockData_genesis.transactions
    /\ call' = [bix |-> BlockData_genesis.bix, wrap |-> wrap]
    /\ op' = "roll_down_genesis"
    /\ rolls' = rolls + 1
    /\ UNCHANGED <<chain, pool, before, senders, result, pow>>

NextGenesis ==
    \/ \E validator \in Keys :
           \E transactions \in RollLists(state) :
               GenesisRollUp(validator, transactions)
    \/ GenesisRollDownLast
    \/ \E wrap \in BOOLEAN : RollDownGenesis(wrap)

SpecGenesis == Init /\ [][NextGenesis]_vars

\* C39: roll_down(0, genesis block, no transactions) in a state whose last
\* block is genesis ends without a successor state, so in every state the
\* index of the last block is the number of blocks rolled up and not rolled
\* down, and the last hash is not the zero hash_prev of the genesis block.
C39_NeverBelowGenesis ==
    /\ (op = "roll_down_genesis" /\ undone.last_block_info.bix = 0) =>
           EndedUnmodified
    /\ ~state.panic =>
           /\ state.last_block_info.bix = Len(chain)
           /\ state.last_block_info.hash # ZeroHash

(***************************************************************************)
(* C40: the block log and the transaction log of Blockchain.               *)
(*                                                                         *)
(* `chain` is block_col and `txs` is transaction_col, each behind its own  *)
(* Mutex; every `.lock().await` of a call is one step, and the steps of    *)
(* the calls of a pusher, a truncater and a reader interleave.  `call`     *)
(* holds, for each of the three, where its call stands and its locals.     *)
(***************************************************************************)

\* A record of a column that was never written.
ZeroItem == [zero |-> TRUE]

\* Col::update_many(ix, items): the items are written from position ix
\* (0-based) on, over what is there and past the end.
Col_update_many(col, ix, items) ==
    [i \in 1..(IF ix + Len(items) > Len(col) THEN ix + Len(items)
               ELSE Len(col)) |->
        IF i > ix /\ i <= ix + Len(items) THEN items[i - ix]
        ELSE IF i <= Len(col) THEN col[i]
        ELSE ZeroItem]

\* Col::resize(size).
Col_resize(col, size) ==
    [i \in 1..size |-> IF i <= Len(col) THEN col[i] ELSE ZeroItem]

\* offset + size of the last block of the block log, 0 when it is empty.
LastEnd(col) ==
    IF col = <<>> THEN 0 ELSE col[Len(col)].offset + col[Len(col)].size

\* The transactions of a pushed block of the given size.
PushedTransactions(size) ==
    [i \in 1..size |-> Signed(State_new, i, NextKey(Validator), Validator)]

NoTasks ==
    [push |-> [pc |-> "idle"], truncate |-> [pc |-> "idle"],
     read |-> [pc |-> "idle"]]

InitBlockchain ==
    /\ state = State_new
    /\ chain = <<>>
    /\ before = <<>>
    /\ undone = State_new
    /\ op = "new"
    /\ rolls = 0
    /\ txs = <<>>
    /\ senders = <<>>
    /\ result = "none"
    /\ candidate = NoBlock
    /\ pow = NoPow
    /\ call = NoTasks
    /\ pool = Pool_new

\* push_new_block, first lock: the transactions are written at the offset
\* of the block, which the caller took from the last block it knew.
PushUpdateMany(size) ==
    /\ call.push.pc = "idle"
    /\ rolls < MaxRolls
    /\ txs' = Col_update_many(txs, LastEnd(chain), PushedTransactions(size))
    /\ call' = [call EXCEPT !.push =
                   [pc |-> "push",
                    block |-> Block_new(LastEnd(chain), size, GENESIS_HASH,
                                        Validator, 0, OtherHash)]]
    /\ rolls' = rolls + 1
    /\ op' = "update_many"
    /\ UNCHANGED <<state, chain, before, undone, senders, result, candidate,
                   pow, pool>>

\* push_new_block, second lock: the block is pushed.
PushBlock ==
    /\ call.push.pc = "push"
    /\ chain' = Append(chain, call.push.block)
    /\ call' = [call EXCEPT !.push = [pc |-> "idle"]]
    /\ op' = "push"
    /\ UNCHANGED <<state, before, undone, rolls, txs, senders, result,
                   candidate, pow, pool>>

\* truncate, first lock: get_block(block_count) for a positive count, which
\* ends the call when there is no such block, and resize(0) of the block log
\* for the count 0.
TruncateStart(block_count) ==
    /\ call.truncate.pc = "idle"
    /\ rolls < MaxRolls
    /\ chain' = IF block_count = 0 THEN Col_resize(chain, 0) ELSE chain
    /\ call' = [call EXCEPT !.truncate =
                   IF block_count = 0
                   THEN [pc |-> "resize_transactions", transaction_count |-> 0]
                   ELSE IF block_count > Len(chain) THEN [pc |-> "idle"]
                   ELSE [pc |-> "resize_blocks", block_count |-> block_count,
                         transaction_count |->
                             chain[block_count].offset
                                 + chain[block_count].size]]
    /\ rolls' = rolls + 1
    /\ op' = "truncate"
    /\ UNCHANGED <<state, before, undone, txs, senders, result, candidate,
                   pow, pool>>

\* truncate, second lock of a positive count: the block log is resized.
TruncateBlocks ==
    /\ call.truncate.pc = "resize_blocks"
    /\ chain' = Col_resize(chain, call.truncate.block_count)
    /\ call' = [call EXCEPT !.truncate =
                   [pc |-> "resize_transactions",
                    transaction_count |-> call.truncate.transaction_count]]
    /\ op' = "resize_blocks"
    /\ UNCHANGED <<state, before, undone, rolls, txs, senders, result,
                   candidate, pow, pool>>

\* truncate, last lock: the transaction log is resized.
TruncateTransactions ==
    /\ call.truncate.pc = "resize_transactions"
    /\ txs' = Col_resize(txs, call.truncate.transaction_count)
    /\ call' = [call EXCEPT !.truncate = [pc |-> "idle"]]
    /\ op' = "resize_transactions"
    /\ UNCHANGED <<state, chain, before, undone, rolls, senders, result,
                   candidate, pow, pool>>

\* get_block_data(bix) for a positive bix, first lock: get_block(bix), which
\* ends the call when there is no such block.
ReadBlock(bix) ==
    /\ call.read.pc = "idle"
    /\ rolls < MaxRolls
    /\ call' = [call EXCEPT !.read =
                   IF bix > Len(chain) THEN [pc |-> "idle"]
                   ELSE [pc |-> "get_transactions", bix |-> bix,
                         block |-> chain[bix]]]
    /\ rolls' = rolls + 1
    /\ op' = "get_block"
    /\ UNCHANGED <<state, chain, before, undone, txs, senders, result,
                   candidate, pow, pool>>

\* get_block_data, second lock: get_transactions_of_block reads size
\* transactions from the offset of the block; there are that many or the
\* read fails.
ReadTransactions ==
    /\ call.read.pc = "get_transactions"
    /\ result' = [bix |-> call.read.bix, block |-> call.read.block,
                  found |-> call.read.block.offset + call.read.block.size
                                <= Len(txs)]
    /\ call' = [call EXCEPT !.read = [pc |-> "idle"]]
    /\ op' = "get_block_data"
    /\ UNCHANGED <<state, chain, before, undone, rolls, txs, senders,
                   candidate, pow, pool>>

\* get_last_block, first lock: get_block_count.
ReadBlockCount ==
    /\ call.read.pc = "idle"
    /\ rolls < MaxRolls
    /\ call' = [call EXCEPT !.read =
                   IF chain = <<>> THEN [pc |-> "idle"]
                   ELSE [pc |-> "get_last_block", bix |-> Len(chain)]]
    /\ rolls' = rolls + 1
    /\ op' = "get_block_count"
    /\ UNCHANGED <<state, chain, before, undone, txs, senders, result,
                   candidate, pow, pool>>

\* get_last_block, second lock: get_block of the count.
ReadLastBlock ==
    /\ call.read.pc = "get_last_block"
    /\ call' = [call EXCEPT !.read =
                   IF call.read.bix > Len(chain) THEN [pc |-> "idle"]
                   ELSE [pc |-> "get_transaction_count",
                         block |-> chain[call.read.bix]]]
    /\ op' = "get_last_block"
    /\ UNCHANGED <<state, chain, before, undone, rolls, txs, senders, result,
                   candidate, pow, pool>>

\* get_transaction_count, by the reader that has the last block.
ReadTransactionCount ==
    /\ call.read.pc = "get_transaction_count"
    /\ result' = [block |-> call.read.block, count |-> Len(txs)]
    /\ call' = [call EXCEPT !.read = [pc |-> "idle"]]
    /\ op' = "get_transaction_count"
    /\ UNCHANGED <<state, chain, before, undone, rolls, txs, senders,
                   candidate, pow, pool>>

NextBlockchain ==
    \/ \E size \in {1, 2} : PushUpdateMany(size)
    \/ PushBlock
    \/ \E block_count \in 0..(Len(chain) + 1) : TruncateStart(block_count)
    \/ TruncateBlocks
    \/ TruncateTransactions
    \/ \E bix \in 1..(Len(chain) + 1) : ReadBlock(bix)
    \/ ReadTransactions
    \/ ReadBlockCount
    \/ ReadLastBlock
    \/ ReadTransactionCount

SpecBlockchain == InitBlockchain /\ [][NextBlockchain]_vars

\* C40: whatever the interleaving of push_new_block, truncate and the reads,
\* a reader that has the last block does not count more transactions than
\* its offset + size, a reader that has a block finds its transactions, and
\* when no call is under way the number of transactions is offset + size of
\* the last block.
C40_LogsConsistent ==
    /\ (op = "get_transaction_count") =>
           (result.count <= result.block.offset + result.block.size)
    /\ (op = "get_block_data") => result.found
    /\ (call = NoTasks) => (Len(txs) = LastEnd(chain))

(***************************************************************************)
(* C32: Pool::roll_down after a block was rolled down.                     *)
(***************************************************************************)

\* A block that Block::validate accepts is rolled up.
ReorgBlock(transactions) ==
    /\ ~state.panic
    /\ Len(chain) < MaxBlocks
    /\ BlockVerdict(state, Validator, transactions) = "Ok"
    /\ CallRollUp(state.last_block_info.bix + 1,
                  MinedBlock(state, Validator, transactions), transactions)

\* The last block is rolled down in the state.
ReorgRollDown ==
    /\ ~state.panic
    /\ op = "roll_up"
    /\ chain # <<>>
    /\ CallRollDown(chain[Len(chain)].bix, chain[Len(chain)].block,
                    chain[Len(chain)].transactions)

\* pool.roll_down(transactions, state, calc_senders(transactions, state))
\* with the transactions of the block just rolled down.
PoolRollDown(rolled) ==
    /\ pool' = IF rolled = <<>> THEN pool ELSE rolled[1]
    /\ result' = IF rolled = <<>> THEN "Panic" ELSE "Ok"
    /\ senders' = calc_senders(txs, state)
    /\ call' = PoolCall(pool, <<>>, Validator, <<>>, FALSE)
    /\ op' = "pool_roll_down"
    /\ UNCHANGED <<state, chain, before, undone, rolls, txs, candidate, pow>>

NextReorg ==
    \/ /\ op \in {"new", "add_group"}
       /\ Len(pool.groups) < MaxPool
       /\ \E group \in PoolUnits(state, Validator) :
              AddGroup(group, Validator)
    \/ /\ op \in {"new", "add_group", "roll_up"}
       /\ \E transactions \in RollLists(state) : ReorgBlock(transactions)
    \/ ReorgRollDown
    \/ /\ op = "roll_down"
       /\ ~state.panic
       /\ \E rolled \in {Pool_roll_down(
                             pool,
                             group_transactions(txs, state,
                                                calc_senders(txs, state), 0),
                             state, calc_senders(txs, state), 1)} :
              PoolRollDown(rolled)

SpecReorg == Init /\ [][NextReorg]_vars

\* The groups of the items of a block, and the sender of each.
RECURSIVE FreedGroups(_, _)
FreedGroups(items, i) ==
    IF i > Len(items) THEN <<>>
    ELSE <<items[i].group>> \o FreedGroups(items, i + 1)

RECURSIVE FreedSenders(_, _, _)
FreedSenders(items, snd, i) ==
    IF i > Len(items) THEN <<>>
    ELSE <<snd[items[i].offset + 1]>> \o FreedSenders(items, snd, i + 1)

\* C32: after a block that was accepted is rolled down in the state,
\* Pool::roll_down with the transactions of the block and the senders
\* calc_senders gives in that state leaves the pool as its former entries
\* followed by the user groups of the block in their order, each with its
\* own sender, and by no transaction of an extension.
C32_FreedGroupsPending ==
    (op = "pool_roll_down") =>
        /\ result = "Ok"
        /\ pool.groups =
               call.pool.groups
                   \o FreedGroups(group_transactions(txs, state, senders, 0),
                                  1)
        /\ pool.senders =
               call.pool.senders
                   \o FreedSenders(group_transactions(txs, state, senders, 0),
                                   senders, 1)

====
